---- MODULE Spec2Model ----
(***************************************************************************)
(* L3P: the App Coordinator (src/src/app.py), the pystray Tray Surface     *)
(* (src/src/tray.py), the Qt Tray Surface (src/src/tray_qt.py) and the     *)
(* Profile Surface (src/src/profile_window.py) as one state machine.       *)
(*                                                                         *)
(* Threads of default mode: the primary thread (L3PApp.run, and inside it  *)
(* ProfileWindow.run and the Python signal handler, which CPython runs on  *)
(* the primary thread between two of its steps), the tray worker thread    *)
(* (L3PApp._run_tray, and inside it the menu callbacks), and the refresh   *)
(* thread (PystrayTrayIcon._update_loop).                                  *)
(*                                                                         *)
(* Collaborators outside the repository, modelled by their contract:       *)
(*   threading.Event  a boolean; wait(t) returns when it is set or when    *)
(*                    t has elapsed;                                       *)
(*   pystray.Icon     run() blocks until stop() is called on a running     *)
(*                    icon; stop() on an icon that is not running changes  *)
(*                    nothing (an exception it raises is swallowed by      *)
(*                    PystrayTrayIcon.stop); setup runs once after run();  *)
(*   dearpygui        one process-wide context; is_dearpygui_running() is  *)
(*                    true from setup_dearpygui() until stop_dearpygui()   *)
(*                    or the user closes the viewport.                     *)
(***************************************************************************)
EXTENDS Integers, FiniteSets, Sequences, TLC

\* Bound of the model: the user clicks 'Show Profile' at most this often.
MaxShowClicks == 2

\* Bound of the model: at most this many termination signals are delivered.
MaxSignals == 1

\* self._stop_event.wait(0.5), in half seconds
INITIAL_DELAY == 1
\* PystrayTrayIcon.UPDATE_INTERVAL = 1.0, in half seconds
UPDATE_INTERVAL == 2

\* The ProfileWindow instances the coordinator may create; 0 is None.
Windows == 1..MaxShowClicks

VARIABLES
    use_qt,             \* tray.USE_QT_TRAY
    mainpc,             \* primary thread: position in L3PApp.run
    sigpc,              \* primary thread: position in L3PApp._handle_signal
    sig_installed,      \* signal.signal(...) has been called
    sig_count,          \* history: number of termination signals delivered
    profile,            \* L3PApp._profile (0 is None)
    tray,               \* L3PApp._tray is not None
    show_profile_event, \* L3PApp._show_profile_event
    exit_event,         \* L3PApp._exit_event
    tray_thread,        \* tray worker thread: position in _run_tray
    stop_event,         \* PystrayTrayIcon._stop_event
    icon_loop,          \* pystray.Icon event loop: idle, running, stopped
    update_thread,      \* refresh thread: position in _update_loop
    wait_left,          \* half seconds left of the refresh thread's wait
                        \* (kept until the loop test that follows the wait)
    last_op,            \* history: the refresh thread's last operation
    stop_raised,        \* history: an exception has left a tray stop()
    clicks,             \* history: number of 'Show Profile' clicks
    req_in_run,         \* history: windows during whose run() a click came
    wpc,                \* per ProfileWindow: position in ProfileWindow.run
    running,            \* per ProfileWindow: self._running
    dpg_context,        \* the window whose dpg context is alive (0: none)
    dpg_started,        \* dpg.is_dearpygui_running()
    qt,                 \* QtTrayIcon: [timer, tray, app]
    \* One ProfileWindow's refresh state, explored by RefreshSpec
    rpc,                \* position in one frame of the render loop
    now,                \* time.time(), in tenths of a second
    last_update,        \* ProfileWindow._last_update
    update_interval,    \* ProfileWindow._update_interval
    sampled,            \* history: the last frame called the collector
    widgets,            \* per category: the time of the sample it shows
    \* The operating system as MetricsCollector sees it, explored by MetricsSpec
    os_raise,           \* the psutil/platform queries that raise
    os_none,            \* the queries that return None
    os_reading,         \* the number a query that succeeds returns
    got,                \* the last collector call and what it returned
    shown,              \* the values the tray icon and tooltip show
    \* One call of main(), explored by MainSpec
    argv,               \* the options on the command line
    cli_pc,             \* position in main()
    imported,           \* the modules of the package imported so far
    mode,               \* the mode main() has started
    outcome,            \* how the call of the selected mode ended
    cli_result,         \* how main() ended: [kind, code]
    stderr,             \* what main() has written to standard error
    \* One call of format_bytes, explored by FormatSpec
    bytes_value,        \* the argument: its base-1024 digits, lowest first
    divisions,          \* history: how often the loop divided by 1024
    formatted,          \* the string returned ("" before the call)
    \* One call of format_uptime, explored by UptimeSpec
    seconds,            \* the argument, in tenths of a second
    uptime_text,        \* the string returned ("" before the call)
    \* One tooltip update of a tray, explored by TooltipSpec
    host,               \* platform.system() of the host
    frozen,             \* getattr(sys, 'frozen', False)
    sample,             \* the quick sample (cpu, mem, disk), in tenths
    tooltip,            \* the tray's title / tool tip
    tooltip_by          \* history: the tray that wrote the tooltip

\* The variables of the coordinator, the tray and the window life cycle.
appVars == <<use_qt, mainpc, sigpc, sig_installed, sig_count, profile, tray,
             show_profile_event, exit_event, tray_thread, stop_event,
             icon_loop, update_thread, wait_left, last_op, stop_raised,
             clicks, req_in_run, wpc, running, dpg_context, dpg_started, qt>>

refreshVars == <<rpc, now, last_update, update_interval, sampled, widgets>>

metricVars == <<os_raise, os_none, os_reading, got, shown>>

cliVars == <<argv, cli_pc, imported, mode, outcome, cli_result, stderr>>

fmtVars == <<bytes_value, divisions, formatted>>

uptimeVars == <<seconds, uptime_text>>

tooltipVars == <<host, frozen, sample, tooltip, tooltip_by>>

\* The variables of the components that the coordinator's interleavings do
\* not touch; Spec keeps them at their constructed values, and each has a
\* specification of its own.
isoVars == <<refreshVars, metricVars, cliVars, fmtVars, uptimeVars,
            tooltipVars>>

\* What the steps of each component taken alone leave unchanged.
outsideRefresh ==
    <<appVars, metricVars, cliVars, fmtVars, uptimeVars, tooltipVars>>
outsideMetrics ==
    <<appVars, refreshVars, cliVars, fmtVars, uptimeVars, tooltipVars>>
outsideCli ==
    <<appVars, refreshVars, metricVars, fmtVars, uptimeVars, tooltipVars>>
outsideFmt ==
    <<appVars, refreshVars, metricVars, cliVars, uptimeVars, tooltipVars>>
outsideUptime ==
    <<appVars, refreshVars, metricVars, cliVars, fmtVars, tooltipVars>>
outsideTooltip ==
    <<appVars, refreshVars, metricVars, cliVars, fmtVars, uptimeVars>>

vars == <<appVars, isoVars>>

coordVars == <<profile, tray, show_profile_event, exit_event>>
trayVars == <<stop_event, icon_loop, stop_raised>>
clickVars == <<clicks, req_in_run>>
updVars == <<update_thread, wait_left, last_op>>
winVars == <<wpc, running, dpg_context, dpg_started>>
sigVars == <<sigpc, sig_installed, sig_count>>

----------------------------------------------------------------------------
(* ProfileWindow.__init__: the refresh state; times in tenths of a second *)

\* self._update_interval = 1.0
DEFAULT_INTERVAL == 10
\* dpg.add_slider_float(..., min_value=0.1, max_value=5.0, ...)
MIN_INTERVAL == 1
MAX_INTERVAL == 50

\* Bound of the model: the clock advances at most this far.
MaxTime == 6
\* Bound of the model: the slider is moved to values up to this one.
MaxSlider == 3

\* time.time() when the window is constructed: the epoch (the 0.0 of
\* self._last_update) lies further back than the longest interval.
StartTime == MAX_INTERVAL

\* The six sections of the window, in the order _update_metrics fills them.
CategoryOrder == <<"CPU", "Memory", "Disk", "Network", "Processes", "System">>
Sections == 1..Len(CategoryOrder)

\* self._update_interval = 1.0; self._last_update = 0.0; every row "--"
ProfileWindowInit ==
    /\ rpc = "update"
    /\ now = StartTime
    /\ last_update = 0
    /\ update_interval = DEFAULT_INTERVAL
    /\ sampled = FALSE
    /\ widgets = [c \in Sections |-> 0]

----------------------------------------------------------------------------
(* MetricsCollector and the tray's first icon *)

\* initial_icon = self._create_icon(25, 25, 25)
INITIAL_LEVEL == 25

\* No collector call has been made, every query would succeed, and the tray
\* shows its initial icon.
MetricsInit ==
    /\ os_raise = {}
    /\ os_none = {}
    /\ os_reading = 0
    /\ got = [call |-> "none", raised |-> FALSE, value |-> [none |-> TRUE]]
    /\ shown = [cpu |-> INITIAL_LEVEL, mem |-> INITIAL_LEVEL,
                disk |-> INITIAL_LEVEL]

----------------------------------------------------------------------------
(* format_bytes: its argument and units *)

\* for unit in ['B', 'KB', 'MB', 'GB']: ...; return f"{bytes_value:.1f} TB"
Units == <<"B", "KB", "MB", "GB", "TB">>

\* A byte count is written with one base-1024 digit per unit, the lowest
\* first: below 1024^5 = 2^50, where every division by 1024 is exact in a
\* double.
BytePositions == 1..Len(Units)
ZeroBytes == [i \in BytePositions |-> 0]

\* No call has been made.
FormatInit ==
    /\ bytes_value = ZeroBytes
    /\ divisions = 0
    /\ formatted = ""

\* format_uptime has not been called; the argument is 0.0
UptimeInit ==
    /\ seconds = 0
    /\ uptime_text = ""

\* The tray as constructed: title="L3P - Loading...", no sample taken.
TooltipInit ==
    /\ host = "Linux"
    /\ frozen = FALSE
    /\ sample = <<0, 0, 0>>
    /\ tooltip = "L3P - Loading..."
    /\ tooltip_by = "none"

----------------------------------------------------------------------------
(* main(): before the call *)

NoResult == [kind |-> "none", code |-> 0]

\* The full mode is selected (no option), nothing is imported or written.
CliInit ==
    /\ argv = {}
    /\ cli_pc = "parse"
    /\ imported = {}
    /\ mode = "none"
    /\ outcome = "none"
    /\ cli_result = NoResult
    /\ stderr = ""

----------------------------------------------------------------------------
(* L3PApp.__init__ and the module constant USE_QT_TRAY *)

\* _should_use_qt(): Linux, a desktop name that contains 'kde', 'plasma' or
\* 'lxqt' (lower-cased), and PyQt6 can be imported.  desktop is the set of
\* these fragments that XDG_CURRENT_DESKTOP contains.
_should_use_qt(system, desktop, pyqt6) ==
    IF system # "Linux" THEN FALSE
    ELSE IF desktop \cap {"kde", "plasma", "lxqt"} # {}
         THEN pyqt6
         ELSE FALSE

\* USE_QT_TRAY = _should_use_qt(), on every platform and desktop
AppInit ==
    /\ \E system \in {"Linux", "Windows", "Darwin"} :
       \E desktop \in SUBSET {"kde", "plasma", "lxqt", "gnome"} :
       \E pyqt6 \in BOOLEAN :
          use_qt = _should_use_qt(system, desktop, pyqt6)
    /\ mainpc = "install"
    /\ sigpc = "none"
    /\ sig_installed = FALSE
    /\ sig_count = 0
    /\ profile = 0
    /\ tray = FALSE
    /\ show_profile_event = FALSE
    /\ exit_event = FALSE
    /\ tray_thread = "unstarted"
    /\ stop_event = FALSE
    /\ icon_loop = "idle"
    /\ update_thread = "unstarted"
    /\ wait_left = 0
    /\ last_op = "none"
    /\ stop_raised = FALSE
    /\ clicks = 0
    /\ req_in_run = {}
    /\ wpc = [w \in Windows |-> "none"]
    /\ running = [w \in Windows |-> FALSE]
    /\ dpg_context = 0
    /\ dpg_started = FALSE
    /\ qt = [timer |-> "none", tray |-> "none", app |-> "none"]

Init ==
    /\ AppInit
    /\ ProfileWindowInit
    /\ MetricsInit
    /\ CliInit
    /\ FormatInit
    /\ UptimeInit
    /\ TooltipInit

\* The primary thread runs its own code only while no signal handler is
\* executing on it.
MainFree == sigpc = "none"

----------------------------------------------------------------------------
(* Collaborators: threading.Event, pystray.Icon, dearpygui, QApplication *)

\* Event.wait(timeout): returns once the event is set or the time is up.
EventWait(event, left) == event \/ left = 0

\* pystray.Icon.stop(): ends a running event loop, otherwise no effect.
icon_stop(loop) == IF loop = "running" THEN "stopped" ELSE loop

\* Variant: stop() without the try/except, so that what icon.stop() raises on
\* an icon that is not running leaves stop().
StopEscapesUnguarded(loop) == loop # "running"

\* PystrayTrayIcon.stop: try: self._icon.stop() except Exception: pass
\* Whether an exception leaves stop(): the except clause swallows them all.
StopEscapes(loop) == FALSE

\* dpg.stop_dearpygui(): with no context it raises (swallowed by the caller).
stop_dearpygui(ctx, started) == IF ctx = 0 THEN started ELSE FALSE

\* QTimer.stop(), QSystemTrayIcon.hide(), QApplication.quit() (quit() does
\* nothing while no event loop is running).
QtStop(q) ==
    [timer |-> IF q.timer = "none" THEN "none" ELSE "stopped",
     tray  |-> IF q.tray = "none" THEN "none" ELSE "hidden",
     app   |-> IF q.app = "exec" THEN "quit" ELSE q.app]

----------------------------------------------------------------------------
(* L3PApp.run, primary thread *)

\* signal.signal(SIGINT, ...); signal.signal(SIGTERM, ...)
MainInstall ==
    /\ mainpc = "install" /\ MainFree
    /\ sig_installed' = TRUE
    /\ mainpc' = IF use_qt THEN "qt_create" ELSE "start_thread"
    /\ UNCHANGED <<isoVars, use_qt, sigpc, sig_count, coordVars, tray_thread, trayVars,
                   updVars, clickVars, winVars, qt>>

\* self._tray_thread = Thread(target=self._run_tray, daemon=True); start()
MainStartThread ==
    /\ mainpc = "start_thread" /\ MainFree
    /\ tray_thread' = "create"
    /\ mainpc' = "loop_test"
    /\ UNCHANGED <<isoVars, use_qt, sigVars, coordVars, trayVars, updVars, clickVars,
                   winVars, qt>>

\* while not self._exit_event.is_set():
MainLoopCondition == ~exit_event

MainLoopTest ==
    /\ mainpc = "loop_test" /\ MainFree
    /\ mainpc' = IF MainLoopCondition THEN "wait" ELSE "cleanup"
    /\ UNCHANGED <<isoVars, use_qt, sigVars, coordVars, tray_thread, trayVars, updVars,
                   clickVars, winVars, qt>>

\* Variant: the result of wait() is taken as False even when the event is set.
MainWaitIgnoresEvent ==
    /\ mainpc = "wait" /\ MainFree
    /\ mainpc' = "loop_test"
    /\ UNCHANGED <<isoVars, use_qt, sigVars, coordVars, tray_thread, trayVars,
                   updVars, clickVars, winVars, qt>>

\* if self._show_profile_event.wait(timeout=0.1): returns True as soon as the
\* event is set, False when the 100 ms are up with the event unset.
MainWait ==
    /\ mainpc = "wait" /\ MainFree
    /\ mainpc' = IF show_profile_event THEN "clear" ELSE "loop_test"
    /\ UNCHANGED <<isoVars, use_qt, sigVars, coordVars, tray_thread, trayVars, updVars,
                   clickVars, winVars, qt>>

\* Variant: the supervising loop clears the exit event instead.
MainClearExitEvent ==
    /\ mainpc = "clear" /\ MainFree
    /\ exit_event' = FALSE
    /\ mainpc' = "create"
    /\ UNCHANGED <<isoVars, use_qt, sigVars, profile, tray, show_profile_event,
                   tray_thread, trayVars, updVars, clickVars, winVars, qt>>

\* self._show_profile_event.clear()
MainClear ==
    /\ mainpc = "clear" /\ MainFree
    /\ show_profile_event' = FALSE
    /\ mainpc' = "create"
    /\ UNCHANGED <<isoVars, use_qt, sigVars, profile, tray, exit_event, tray_thread,
                   trayVars, updVars, clickVars, winVars, qt>>

\* The instance ProfileWindow() returns: the first one not yet constructed.
NewWindow == CHOOSE w \in Windows : wpc[w] = "none" /\ \A v \in 1..(w-1) : wpc[v] # "none"

\* self._profile = ProfileWindow()   (ProfileWindow.__init__: _running = False)
MainCreate ==
    /\ mainpc = "create" /\ MainFree
    /\ \E w \in Windows : wpc[w] = "none"
    /\ profile' = NewWindow
    /\ wpc' = [wpc EXCEPT ![NewWindow] = "created"]
    /\ running' = [running EXCEPT ![NewWindow] = FALSE]
    /\ mainpc' = "call_run"
    /\ UNCHANGED <<isoVars, use_qt, sigVars, tray, show_profile_event, exit_event,
                   tray_thread, trayVars, updVars, clickVars, dpg_context,
                   dpg_started, qt>>

\* Variant: run() is started without waiting for it (as on a thread of its
\* own), and the loop goes on at once.
MainCallRunDetached ==
    /\ mainpc = "call_run" /\ MainFree
    /\ wpc' = [wpc EXCEPT ![profile] = "run"]
    /\ mainpc' = "finally"
    /\ UNCHANGED <<isoVars, use_qt, sigVars, coordVars, tray_thread, trayVars, updVars,
                   clickVars, running, dpg_context, dpg_started, qt>>

\* self._profile.run() is entered
MainCallRun ==
    /\ mainpc = "call_run" /\ MainFree
    /\ wpc' = [wpc EXCEPT ![profile] = "run"]
    /\ mainpc' = "in_run"
    /\ UNCHANGED <<isoVars, use_qt, sigVars, coordVars, tray_thread, trayVars, updVars,
                   clickVars, running, dpg_context, dpg_started, qt>>

\* Variant: the caller does not wait for run() to end.
RunNotAwaited(w) == TRUE

\* ProfileWindow.run() is a blocking call: the caller goes on when it has
\* returned or raised.
RunFinished(w) == wpc[w] \in {"returned", "raised", "released"}

\* A call of ProfileWindow.run() on w is in progress.
InRun(w) ==
    wpc[w] \in {"run", "context", "setup", "test", "update", "render", "destroy"}

\* run() returns, or raises and the except clause prints the error
MainRunReturns ==
    /\ mainpc = "in_run" /\ MainFree
    /\ RunFinished(profile)
    /\ mainpc' = "finally"
    /\ UNCHANGED <<isoVars, use_qt, sigVars, coordVars, tray_thread, trayVars, updVars,
                   clickVars, winVars, qt>>

\* An instance whose run() has ended and to which nothing refers any more
\* is released: its fields are gone.
Released(w) ==
    IF wpc[w] \in {"returned", "raised"}
      THEN /\ wpc' = [wpc EXCEPT ![w] = "released"]
           /\ running' = [running EXCEPT ![w] = FALSE]
      ELSE UNCHANGED <<wpc, running>>

\* Variant: a run() that raised ends the supervising loop.
MainFinallyLeavesLoop ==
    /\ mainpc = "finally" /\ MainFree
    /\ profile' = 0
    /\ mainpc' = IF wpc[profile] = "raised" THEN "cleanup" ELSE "loop_test"
    /\ Released(profile)
    /\ UNCHANGED <<isoVars, use_qt, sigVars, tray, show_profile_event,
                   exit_event, tray_thread, trayVars, updVars, clickVars,
                   dpg_context, dpg_started, qt>>

\* finally: self._profile = None
MainFinally ==
    /\ mainpc = "finally" /\ MainFree
    /\ profile' = 0
    /\ Released(profile)
    /\ mainpc' = "loop_test"
    /\ UNCHANGED <<isoVars, use_qt, sigVars, tray, show_profile_event, exit_event,
                   tray_thread, trayVars, updVars, clickVars, dpg_context,
                   dpg_started, qt>>

\* Cleanup: if self._tray: self._tray.stop()   (stop: self._stop_event.set())
MainCleanup ==
    /\ mainpc = "cleanup" /\ MainFree
    /\ \/ /\ tray
          /\ stop_event' = TRUE
          /\ mainpc' = "cleanup_icon"
       \/ /\ ~tray
          /\ mainpc' = "join"
          /\ UNCHANGED stop_event
    /\ UNCHANGED <<isoVars, use_qt, sigVars, coordVars, tray_thread, icon_loop,
                   stop_raised, updVars,
                   clickVars, winVars, qt>>

\* ... stop: try: self._icon.stop() except Exception: pass
MainCleanupIcon ==
    /\ mainpc = "cleanup_icon" /\ MainFree
    /\ icon_loop' = icon_stop(icon_loop)
    /\ stop_raised' = (stop_raised \/ StopEscapes(icon_loop))
    /\ mainpc' = "join"
    /\ UNCHANGED <<isoVars, use_qt, sigVars, coordVars, tray_thread, stop_event, updVars,
                   clickVars, winVars, qt>>

\* Thread.join(timeout=2.0) returns when the thread has ended or after 2 s.
JoinReturns(thread) == thread = "dead" \/ TRUE

\* if self._tray_thread and self._tray_thread.is_alive(): join(timeout=2.0)
MainJoin ==
    /\ mainpc = "join" /\ MainFree
    /\ JoinReturns(tray_thread)
    /\ mainpc' = "done"
    /\ UNCHANGED <<isoVars, use_qt, sigVars, coordVars, tray_thread, trayVars, updVars,
                   clickVars, winVars, qt>>

----------------------------------------------------------------------------
(* ProfileWindow.run, executed by the thread that called it *)

\* self._running = True
WinSetRunning(w) ==
    /\ wpc[w] = "run" /\ MainFree
    /\ running' = [running EXCEPT ![w] = TRUE]
    /\ wpc' = [wpc EXCEPT ![w] = "context"]
    /\ UNCHANGED <<isoVars, use_qt, mainpc, sigVars, coordVars, tray_thread, trayVars,
                   updVars, clickVars, dpg_context, dpg_started, qt>>

\* dpg.create_context()
WinCreateContext(w) ==
    /\ wpc[w] = "context" /\ MainFree
    /\ dpg_context' = w
    /\ dpg_started' = FALSE
    /\ wpc' = [wpc EXCEPT ![w] = "setup"]
    /\ UNCHANGED <<isoVars, use_qt, mainpc, sigVars, coordVars, tray_thread, trayVars,
                   updVars, clickVars, running, qt>>

\* _create_theme() ... dpg.setup_dearpygui(); dpg.show_viewport();
\* dpg.set_primary_window(...); any of the toolkit calls may raise
WinSetup(w) ==
    /\ wpc[w] = "setup" /\ MainFree
    /\ \/ /\ dpg_started' = TRUE
          /\ wpc' = [wpc EXCEPT ![w] = "test"]
       \/ /\ wpc' = [wpc EXCEPT ![w] = "raised"]
          /\ UNCHANGED dpg_started
    /\ UNCHANGED <<isoVars, use_qt, mainpc, sigVars, coordVars, tray_thread, trayVars,
                   updVars, clickVars, running, dpg_context, qt>>

\* Variant: the render loop tests the toolkit only, not self._running.
LoopConditionNoFlag(w) == dpg_started

\* while dpg.is_dearpygui_running() and self._running:
LoopCondition(w) == dpg_started /\ running[w]

WinLoopTest(w) ==
    /\ wpc[w] = "test" /\ MainFree
    /\ wpc' = [wpc EXCEPT ![w] = IF LoopCondition(w) THEN "update" ELSE "destroy"]
    /\ UNCHANGED <<isoVars, use_qt, mainpc, sigVars, coordVars, tray_thread, trayVars,
                   updVars, clickVars, running, dpg_context, dpg_started, qt>>

\* self._update_metrics()   (swallows every exception)
WinUpdateMetrics(w) ==
    /\ wpc[w] = "update" /\ MainFree
    /\ wpc' = [wpc EXCEPT ![w] = "render"]
    /\ UNCHANGED <<isoVars, use_qt, mainpc, sigVars, coordVars, tray_thread, trayVars,
                   updVars, clickVars, running, dpg_context, dpg_started, qt>>

\* dpg.render_dearpygui_frame(); the toolkit call may raise
WinRender(w) ==
    /\ wpc[w] = "render" /\ MainFree
    /\ \/ wpc' = [wpc EXCEPT ![w] = "test"]
       \/ wpc' = [wpc EXCEPT ![w] = "raised"]
    /\ UNCHANGED <<isoVars, use_qt, mainpc, sigVars, coordVars, tray_thread, trayVars,
                   updVars, clickVars, running, dpg_context, dpg_started, qt>>

\* dpg.destroy_context(), then run() returns
WinDestroy(w) ==
    /\ wpc[w] = "destroy" /\ MainFree
    /\ dpg_context' = 0
    /\ dpg_started' = FALSE
    /\ wpc' = [wpc EXCEPT ![w] = "returned"]
    /\ UNCHANGED <<isoVars, use_qt, mainpc, sigVars, coordVars, tray_thread, trayVars,
                   updVars, clickVars, running, qt>>

\* The user closes the viewport of the window that is shown.
UserClose ==
    /\ dpg_started
    /\ dpg_started' = FALSE
    /\ UNCHANGED <<isoVars, use_qt, mainpc, sigVars, coordVars, tray_thread, trayVars,
                   updVars, clickVars, wpc, running, dpg_context, qt>>

WinStep(w) ==
    \/ WinSetRunning(w)
    \/ WinCreateContext(w)
    \/ WinSetup(w)
    \/ WinLoopTest(w)
    \/ WinUpdateMetrics(w)
    \/ WinRender(w)
    \/ WinDestroy(w)

----------------------------------------------------------------------------
(* L3PApp._handle_signal, on the primary thread *)

\* A SIGINT or SIGTERM arrives once the handlers are installed and while
\* run() has not returned. In the Qt event loop the Python handler gets to
\* run only when the interpreter does, which is in a timer callback.
CanHandleSignal ==
    /\ sig_count < MaxSignals
    /\ sig_installed
    /\ mainpc # "done"
    /\ mainpc = "qt_exec" => qt.timer = "active"

\* self._exit_event.set()
SignalExit ==
    /\ sigpc = "none"
    /\ CanHandleSignal
    /\ sig_count' = sig_count + 1
    /\ exit_event' = TRUE
    /\ sigpc' = "profile"
    /\ UNCHANGED <<isoVars, use_qt, mainpc, sig_installed, profile, tray,
                   show_profile_event, tray_thread, trayVars, updVars, clickVars,
                   winVars, qt>>

\* if self._profile: self._profile.stop()
\* (stop: self._running = False; try: dpg.stop_dearpygui() except: pass)
SignalProfile ==
    /\ sigpc = "profile"
    /\ IF profile # 0
         THEN /\ running' = [running EXCEPT ![profile] = FALSE]
              /\ dpg_started' = stop_dearpygui(dpg_context, dpg_started)
         ELSE UNCHANGED <<running, dpg_started>>
    /\ sigpc' = "tray"
    /\ UNCHANGED <<isoVars, use_qt, mainpc, sig_installed, sig_count, coordVars,
                   tray_thread, trayVars, updVars, clickVars, wpc, dpg_context, qt>>

\* if self._tray: self._tray.stop()
\* (PystrayTrayIcon.stop: self._stop_event.set(); QtTrayIcon.stop: all of it)
SignalTray ==
    /\ sigpc = "tray"
    /\ \/ /\ ~tray
          /\ sigpc' = "none"
          /\ UNCHANGED <<stop_event, qt>>
       \/ /\ tray /\ ~use_qt
          /\ stop_event' = TRUE
          /\ sigpc' = "icon"
          /\ UNCHANGED qt
       \/ /\ tray /\ use_qt
          /\ qt' = QtStop(qt)
          /\ sigpc' = "none"
          /\ UNCHANGED stop_event
    /\ UNCHANGED <<isoVars, use_qt, mainpc, sig_installed, sig_count, coordVars,
                   tray_thread, icon_loop, stop_raised, updVars, clickVars,
                   winVars>>

\* ... PystrayTrayIcon.stop: try: self._icon.stop() except Exception: pass
SignalIcon ==
    /\ sigpc = "icon"
    /\ icon_loop' = icon_stop(icon_loop)
    /\ stop_raised' = (stop_raised \/ StopEscapes(icon_loop))
    /\ sigpc' = "none"
    /\ UNCHANGED <<isoVars, use_qt, mainpc, sig_installed, sig_count, coordVars,
                   tray_thread, stop_event, updVars, clickVars, winVars, qt>>

----------------------------------------------------------------------------
(* L3PApp._run_tray and the pystray menu callbacks, tray worker thread *)

\* self._tray = create_tray_icon(on_show_profile=..., on_exit=...)
TrayCreate ==
    /\ tray_thread = "create"
    /\ tray' = TRUE
    /\ tray_thread' = "call_run"
    /\ UNCHANGED <<isoVars, use_qt, mainpc, sigVars, profile, show_profile_event,
                   exit_event, trayVars, updVars, clickVars, winVars, qt>>

\* Variant: run() re-arms the instance by clearing the stop flag.
TrayRunClearsStop ==
    /\ tray_thread = "call_run"
    /\ icon_loop' = "running"
    /\ stop_event' = FALSE
    /\ tray_thread' = "loop"
    /\ UNCHANGED <<isoVars, use_qt, mainpc, sigVars, coordVars, stop_raised,
                   updVars, clickVars, winVars, qt>>

\* self._tray.run(): self._icon.run(setup=self._on_setup) starts the loop
TrayRun ==
    /\ tray_thread = "call_run"
    /\ icon_loop' = "running"
    /\ tray_thread' = "loop"
    /\ UNCHANGED <<isoVars, use_qt, mainpc, sigVars, coordVars, stop_event, stop_raised,
                   updVars,
                   clickVars, winVars, qt>>

\* The menu can be used while the icon is shown and its loop dispatches.
MenuAvailable ==
    /\ tray_thread = "loop"
    /\ icon_loop = "running"
    /\ update_thread # "unstarted"

\* Variant: the menu callback constructs the window and runs it itself, on
\* the thread of the tray.
ClickShowRunsWindow ==
    /\ MenuAvailable
    /\ clicks < MaxShowClicks
    /\ \E w \in Windows : wpc[w] = "none"
    /\ clicks' = clicks + 1
    /\ wpc' = [wpc EXCEPT ![NewWindow] = "run"]
    /\ UNCHANGED <<isoVars, use_qt, mainpc, sigVars, coordVars, tray_thread,
                   trayVars, updVars, req_in_run, running, dpg_context,
                   dpg_started, qt>>

\* _handle_show_profile -> L3PApp._on_show_profile: the event is set
ClickShow ==
    /\ MenuAvailable
    /\ clicks < MaxShowClicks
    /\ clicks' = clicks + 1
    /\ req_in_run' = req_in_run \cup {w \in Windows : InRun(w)}
    /\ show_profile_event' = TRUE
    /\ UNCHANGED <<isoVars, use_qt, mainpc, sigVars, profile, tray, exit_event,
                   tray_thread, trayVars, updVars, winVars, qt>>

\* _handle_exit: self.stop()   (stop: self._stop_event.set())
ClickExit ==
    /\ MenuAvailable
    /\ stop_event' = TRUE
    /\ tray_thread' = "exit_icon"
    /\ UNCHANGED <<isoVars, use_qt, mainpc, sigVars, coordVars, icon_loop, stop_raised,
                   updVars,
                   clickVars, winVars, qt>>

\* ... stop: try: self._icon.stop() except Exception: pass
ExitIcon ==
    /\ tray_thread = "exit_icon"
    /\ icon_loop' = icon_stop(icon_loop)
    /\ stop_raised' = (stop_raised \/ StopEscapes(icon_loop))
    /\ tray_thread' = "exit_event"
    /\ UNCHANGED <<isoVars, use_qt, mainpc, sigVars, coordVars, stop_event, updVars,
                   clickVars, winVars, qt>>

\* Variant: the exit callback also withdraws a pending show-profile request.
ExitEventClearsRequest ==
    /\ tray_thread = "exit_event"
    /\ exit_event' = TRUE
    /\ show_profile_event' = FALSE
    /\ tray_thread' = "exit_profile"
    /\ UNCHANGED <<isoVars, use_qt, mainpc, sigVars, profile, tray, trayVars,
                   updVars, clickVars, winVars, qt>>

\* _handle_exit: self._on_exit() -> L3PApp._on_exit: self._exit_event.set()
ExitEvent ==
    /\ tray_thread = "exit_event"
    /\ exit_event' = TRUE
    /\ tray_thread' = "exit_profile"
    /\ UNCHANGED <<isoVars, use_qt, mainpc, sigVars, profile, tray, show_profile_event,
                   trayVars, updVars, clickVars, winVars, qt>>

\* L3PApp._on_exit: if self._profile: self._profile.stop()
\* (stop: self._running = False). The attribute is read twice; when the
\* primary thread sets it to None in between, the call raises inside the
\* menu callback and changes no state, like the branch for None.
ExitProfile ==
    /\ tray_thread = "exit_profile"
    /\ IF profile # 0
         THEN /\ running' = [running EXCEPT ![profile] = FALSE]
              /\ tray_thread' = "exit_dpg"
         ELSE /\ tray_thread' = "loop"
              /\ UNCHANGED running
    /\ UNCHANGED <<isoVars, use_qt, mainpc, sigVars, coordVars, trayVars, updVars,
                   clickVars, wpc, dpg_context, dpg_started, qt>>

\* ... stop: try: dpg.stop_dearpygui() except Exception: pass
ExitDpg ==
    /\ tray_thread = "exit_dpg"
    /\ dpg_started' = stop_dearpygui(dpg_context, dpg_started)
    /\ tray_thread' = "loop"
    /\ UNCHANGED <<isoVars, use_qt, mainpc, sigVars, coordVars, trayVars, updVars,
                   clickVars, wpc, running, dpg_context, qt>>

\* self._icon.run() returns once the loop has been stopped; the thread ends
TrayRunReturn ==
    /\ tray_thread = "loop"
    /\ icon_loop = "stopped"
    /\ tray_thread' = "dead"
    /\ UNCHANGED <<isoVars, use_qt, mainpc, sigVars, coordVars, trayVars, updVars,
                   clickVars, winVars, qt>>

----------------------------------------------------------------------------
(* PystrayTrayIcon._on_setup and _update_loop, refresh thread *)

\* _on_setup: icon.visible = True; Thread(target=self._update_loop).start();
\* _update_loop begins with self._stop_event.wait(0.5)
OnSetup ==
    /\ icon_loop # "idle"
    /\ update_thread = "unstarted"
    /\ update_thread' = "init_wait"
    /\ wait_left' = INITIAL_DELAY
    /\ UNCHANGED <<isoVars, use_qt, mainpc, sigVars, coordVars, tray_thread, trayVars,
                   last_op, clickVars, winVars, qt>>

\* Half a second passes while the refresh thread waits.
Tick ==
    /\ update_thread \in {"init_wait", "wait"}
    /\ wait_left > 0
    /\ wait_left' = wait_left - 1
    /\ UNCHANGED <<isoVars, use_qt, mainpc, sigVars, coordVars, tray_thread, trayVars,
                   update_thread, last_op, clickVars, winVars, qt>>

\* Variant: time.sleep(...) in place of a wait on the stop event.
UpdateSleep == wait_left = 0

\* self._stop_event.wait(0.5) and self._stop_event.wait(self.UPDATE_INTERVAL)
UpdateWait == EventWait(stop_event, wait_left)

UpdWaitReturn ==
    /\ update_thread \in {"init_wait", "wait"}
    /\ UpdateWait
    /\ update_thread' = "test"
    /\ UNCHANGED <<isoVars, use_qt, mainpc, sigVars, coordVars, tray_thread, trayVars,
                   wait_left, last_op, clickVars, winVars, qt>>

\* Variant: while True.
UpdateLoopForever == TRUE

\* while not self._stop_event.is_set():
UpdateLoopCondition == ~stop_event

UpdLoopTest ==
    /\ update_thread = "test"
    /\ update_thread' = IF UpdateLoopCondition THEN "sample" ELSE "done"
    /\ wait_left' = 0
    /\ UNCHANGED <<isoVars, use_qt, mainpc, sigVars, coordVars, tray_thread, trayVars,
                   last_op, clickVars, winVars, qt>>

\* Variant: the failed update is tried again at once.
UpdRaiseRetries ==
    /\ update_thread' = "sample"
    /\ wait_left' = 0
    /\ last_op' = "error"

\* except Exception as e: print(...); then self._stop_event.wait(UPDATE_INTERVAL)
UpdRaise ==
    /\ update_thread' = "wait"
    /\ wait_left' = UPDATE_INTERVAL
    /\ last_op' = "error"

\* cpu, mem, disk = self._metrics.get_quick_metrics()
UpdSample ==
    /\ update_thread = "sample"
    /\ \/ /\ update_thread' = "icon"
          /\ last_op' = "sample"
          /\ UNCHANGED wait_left
       \/ UpdRaise
    /\ UNCHANGED <<isoVars, use_qt, mainpc, sigVars, coordVars, tray_thread, trayVars,
                   clickVars, winVars, qt>>

\* self._icon.icon = self._create_icon(cpu, mem, disk)
UpdIcon ==
    /\ update_thread = "icon"
    /\ \/ /\ update_thread' = "title"
          /\ last_op' = "icon"
          /\ UNCHANGED wait_left
       \/ UpdRaise
    /\ UNCHANGED <<isoVars, use_qt, mainpc, sigVars, coordVars, tray_thread, trayVars,
                   clickVars, winVars, qt>>

\* self._icon.title = (...); self._stop_event.wait(self.UPDATE_INTERVAL)
UpdTitle ==
    /\ update_thread = "title"
    /\ \/ /\ update_thread' = "wait"
          /\ wait_left' = UPDATE_INTERVAL
          /\ last_op' = "title"
       \/ UpdRaise
    /\ UNCHANGED <<isoVars, use_qt, mainpc, sigVars, coordVars, tray_thread, trayVars,
                   clickVars, winVars, qt>>

----------------------------------------------------------------------------
(* Alternate mode: QtTrayIcon on the primary thread *)

\* self._tray = create_tray_icon(...)   (QtTrayIcon.__init__)
MainQtCreate ==
    /\ mainpc = "qt_create" /\ MainFree
    /\ tray' = TRUE
    /\ mainpc' = "qt_app"
    /\ UNCHANGED <<isoVars, use_qt, sigVars, profile, show_profile_event, exit_event,
                   tray_thread, trayVars, updVars, clickVars, winVars, qt>>

\* QtTrayIcon.run: self._app = QApplication.instance() or QApplication(argv)
QtRunApp ==
    /\ mainpc = "qt_app" /\ MainFree
    /\ qt' = [qt EXCEPT !.app = "created"]
    /\ mainpc' = "qt_avail"
    /\ UNCHANGED <<isoVars, use_qt, sigVars, coordVars, tray_thread, trayVars, updVars,
                   clickVars, winVars>>

\* if not QSystemTrayIcon.isSystemTrayAvailable(): print(...); return
\* otherwise the tray icon and its menu are created and shown
QtRunTray ==
    /\ mainpc = "qt_avail" /\ MainFree
    /\ \/ /\ mainpc' = "done"
          /\ UNCHANGED qt
       \/ /\ qt' = [qt EXCEPT !.tray = "visible"]
          /\ mainpc' = "qt_timer"
    /\ UNCHANGED <<isoVars, use_qt, sigVars, coordVars, tray_thread, trayVars, updVars,
                   clickVars, winVars>>

\* self._timer = QTimer(); ...; self._timer.start(self.UPDATE_INTERVAL)
QtRunTimer ==
    /\ mainpc = "qt_timer" /\ MainFree
    /\ qt' = [qt EXCEPT !.timer = "active"]
    /\ mainpc' = "qt_update"
    /\ UNCHANGED <<isoVars, use_qt, sigVars, coordVars, tray_thread, trayVars, updVars,
                   clickVars, winVars>>

\* QtTrayIcon._update_metrics: sample, setIcon, setToolTip; an exception is
\* printed and swallowed
QtUpdateMetrics == last_op' \in {"title", "error"}

\* Initial update: self._update_metrics()
QtRunUpdate ==
    /\ mainpc = "qt_update" /\ MainFree
    /\ QtUpdateMetrics
    /\ mainpc' = "qt_exec_call"
    /\ UNCHANGED <<isoVars, use_qt, sigVars, coordVars, tray_thread, trayVars,
                   update_thread, wait_left, clickVars, winVars, qt>>

\* self._app.exec() starts the event loop
QtRunExec ==
    /\ mainpc = "qt_exec_call" /\ MainFree
    /\ qt' = [qt EXCEPT !.app = "exec"]
    /\ mainpc' = "qt_exec"
    /\ UNCHANGED <<isoVars, use_qt, sigVars, coordVars, tray_thread, trayVars, updVars,
                   clickVars, winVars>>

QtLoopDispatches == mainpc = "qt_exec" /\ MainFree /\ qt.app = "exec"

\* self._timer.timeout -> self._update_metrics
QtTimerTick ==
    /\ QtLoopDispatches
    /\ qt.timer = "active"
    /\ QtUpdateMetrics
    /\ UNCHANGED <<isoVars, use_qt, mainpc, sigVars, coordVars, tray_thread, trayVars,
                   update_thread, wait_left, clickVars, winVars, qt>>

\* Variant: in Qt mode the request constructs a ProfileWindow at once.
QtClickShowOpensWindow ==
    /\ QtLoopDispatches
    /\ qt.tray = "visible"
    /\ clicks < MaxShowClicks
    /\ clicks' = clicks + 1
    /\ show_profile_event' = TRUE
    /\ profile' = NewWindow
    /\ wpc' = [wpc EXCEPT ![NewWindow] = "created"]
    /\ UNCHANGED <<isoVars, use_qt, mainpc, sigVars, tray, exit_event,
                   tray_thread, trayVars, updVars, req_in_run, running,
                   dpg_context, dpg_started, qt>>

\* QtTrayIcon._handle_show_profile -> L3PApp._on_show_profile
QtClickShow ==
    /\ QtLoopDispatches
    /\ qt.tray = "visible"
    /\ clicks < MaxShowClicks
    /\ clicks' = clicks + 1
    /\ req_in_run' = req_in_run \cup {w \in Windows : InRun(w)}
    /\ show_profile_event' = TRUE
    /\ UNCHANGED <<isoVars, use_qt, mainpc, sigVars, profile, tray, exit_event,
                   tray_thread, trayVars, updVars, winVars, qt>>

\* QtTrayIcon._handle_exit: self.stop(); self._on_exit() -> L3PApp._on_exit
QtClickExit ==
    /\ QtLoopDispatches
    /\ qt.tray = "visible"
    /\ qt' = QtStop(qt)
    /\ exit_event' = TRUE
    /\ IF profile # 0
         THEN /\ running' = [running EXCEPT ![profile] = FALSE]
              /\ dpg_started' = stop_dearpygui(dpg_context, dpg_started)
         ELSE UNCHANGED <<running, dpg_started>>
    /\ UNCHANGED <<isoVars, use_qt, mainpc, sigVars, profile, tray, show_profile_event,
                   tray_thread, trayVars, updVars, clickVars, wpc, dpg_context>>

\* self._app.exec() returns after quit(); QtTrayIcon.run and L3PApp.run return
QtExecReturns ==
    /\ mainpc = "qt_exec" /\ MainFree
    /\ qt.app = "quit"
    /\ mainpc' = "done"
    /\ UNCHANGED <<isoVars, use_qt, sigVars, coordVars, tray_thread, trayVars, updVars,
                   clickVars, winVars, qt>>

----------------------------------------------------------------------------
(* The threads and the specifications *)

MainThread ==
    \/ MainInstall
    \/ MainStartThread
    \/ MainLoopTest
    \/ MainWait
    \/ MainClear
    \/ MainCreate
    \/ MainCallRun
    \/ MainRunReturns
    \/ MainFinally
    \/ MainCleanup
    \/ MainCleanupIcon
    \/ MainJoin
    \/ \E w \in Windows : WinStep(w)
    \/ SignalProfile
    \/ SignalTray
    \/ SignalIcon
    \/ MainQtCreate
    \/ QtRunApp
    \/ QtRunTray
    \/ QtRunTimer
    \/ QtRunUpdate
    \/ QtRunExec
    \/ QtExecReturns

TrayThread ==
    \/ TrayCreate
    \/ TrayRun
    \/ ExitIcon
    \/ ExitEvent
    \/ ExitProfile
    \/ ExitDpg
    \/ TrayRunReturn

UpdateThread ==
    \/ OnSetup
    \/ UpdWaitReturn
    \/ UpdLoopTest
    \/ UpdSample
    \/ UpdIcon
    \/ UpdTitle

\* What the user, the operating system and the clock do.
Environment ==
    \/ ClickShow
    \/ ClickExit
    \/ UserClose
    \/ SignalExit
    \/ QtClickShow
    \/ QtClickExit
    \/ QtTimerTick
    \/ Tick

Next == MainThread \/ TrayThread \/ UpdateThread \/ Environment

Spec == Init /\ [][Next]_vars

\* Every thread that can take a step eventually takes one, and time passes;
\* nothing obliges the user to click or close, nor a signal to arrive.
FairSpec ==
    /\ Spec
    /\ WF_vars(MainThread)
    /\ WF_vars(TrayThread)
    /\ WF_vars(UpdateThread)
    /\ WF_vars(Tick)

\* FairSpec, and every window that is shown is eventually closed by the user.
FairCloseSpec ==
    /\ FairSpec
    /\ WF_vars(UserClose)

----------------------------------------------------------------------------
(* Properties of the coordinator's supervising loop *)

\* A ProfileWindow that has been constructed and whose run() has not ended.
Live(w) == wpc[w] # "none" /\ ~RunFinished(w)

\* C1: in default mode at most one ProfileWindow.run() is in progress in
\* every reachable state, and no new ProfileWindow exists before the run()
\* of the previous one has ended.
C1_AtMostOneRun ==
    /\ Cardinality({w \in Windows : InRun(w)}) <= 1
    /\ Cardinality({w \in Windows : Live(w)}) <= 1

\* A second window runs after the first one's run() has ended.
C1_Witness ==
    \E w \in Windows : w > 1 /\ InRun(w) /\ RunFinished(w - 1)

\* C2: when 'Show Profile' has fired twice and the first run() has not
\* ended, no second window has been started; a request made during the
\* run() of a window is served by a later window only after that run() has
\* ended.
C2_SecondRequestAfterReturn ==
    /\ (clicks >= 2 /\ ~RunFinished(1)) => \A v \in Windows : v > 1 => wpc[v] = "none"
    /\ \A w \in req_in_run : \A v \in Windows :
           (v > w /\ wpc[v] # "none") => RunFinished(w)

\* The request made while window 1 was running is being served by window 2.
C2_Witness ==
    /\ 1 \in req_in_run
    /\ RunFinished(1)
    /\ \E v \in Windows : v > 1 /\ InRun(v)

\* C3: the exit flag is monotone: once _exit_event is set, it is set in
\* every later state.
C3_ExitMonotone == [][exit_event => exit_event']_vars

\* The supervising loop is about to clear an event while the exit flag is set.
C3_Witness == exit_event /\ mainpc = "clear"

\* C4: no ProfileWindow.run() call begins after the exit flag has been set.
C4_NoRunAfterExit ==
    [][\A w \in Windows : (wpc[w] = "created" /\ wpc'[w] = "run") => ~exit_event]_vars

\* C5: in default mode a termination signal makes L3PApp.run return, with
\* the exit flag set and the tray stopped, without any user action.
C5_SignalShutsDown ==
    (~use_qt /\ sig_count > 0) ~> (exit_event /\ mainpc = "done")

\* C6: after the tray 'Exit' action has fired, the stop flag, the stopped
\* tray loop and the exit flag are followed by the return of L3PApp.run.
C6_ExitShutsDown ==
    (tray_thread = "exit_icon")
        ~> (stop_event /\ icon_loop = "stopped" /\ exit_event /\ mainpc = "done")

----------------------------------------------------------------------------
(* Properties of the pystray Tray Surface *)

\* C7: a stop() on a running PystrayTrayIcon makes run() return and the
\* refresh thread end, and a wait of the refresh loop can be left as soon as
\* the stop event is set, whatever is left of its interval.
C7_StopEndsTray ==
    /\ []((update_thread \in {"init_wait", "wait"} /\ stop_event)
            => ENABLED UpdWaitReturn)
    /\ (stop_event /\ icon_loop = "stopped")
           ~> (tray_thread = "dead" /\ update_thread = "done")

\* run() has returned, and the refresh thread has left its wait for the stop
\* event with a part of the interval unspent.
C7_Witness ==
    tray_thread = "dead" /\ update_thread = "test" /\ stop_event /\ wait_left > 0

\* C8: the refresh loop samples, writes the icon, writes the tooltip and
\* waits, in this order; it starts an iteration only from a loop test that
\* finds the stop flag unset, and after it has ended it does none of them.
C8_RefreshLoopOrder ==
    [][~use_qt =>
        /\ update_thread = "done"
             => (update_thread' = "done" /\ last_op' = last_op)
        /\ (update_thread' = "sample" /\ update_thread # "sample")
             => (update_thread = "test" /\ ~stop_event)
        /\ (last_op' = "sample" /\ last_op # "sample")
             => update_thread = "sample"
        /\ (last_op' = "icon" /\ last_op # "icon")
             => (last_op = "sample" /\ update_thread = "icon")
        /\ (last_op' = "title" /\ last_op # "title")
             => /\ last_op = "icon" /\ update_thread = "title"
                /\ update_thread' = "wait" /\ wait_left' = UPDATE_INTERVAL
      ]_vars

\* The loop has ended after a complete update.
C8_Witness == ~use_qt /\ update_thread = "done" /\ last_op = "title"

\* The steps of the three callers of PystrayTrayIcon.stop().
StopSetsEvent ==
    \/ mainpc = "cleanup" /\ mainpc' = "cleanup_icon"
    \/ sigpc = "tray" /\ sigpc' = "icon"
    \/ tray_thread = "loop" /\ tray_thread' = "exit_icon"

StopStopsIcon ==
    \/ mainpc = "cleanup_icon" /\ mainpc' = "join"
    \/ sigpc = "icon" /\ sigpc' = "none"
    \/ tray_thread = "exit_icon" /\ tray_thread' = "exit_event"

\* The steps that call QtTrayIcon.stop().
QtStopStep ==
    \/ use_qt /\ sigpc = "tray" /\ sigpc' = "none" /\ tray
    \/ mainpc = "qt_exec" /\ ~exit_event /\ exit_event'

\* C9: tray stop() is idempotent in every lifecycle state and from every
\* thread: no exception leaves it, what it has set stays set, every stop()
\* ends with the stop flag set and the icon loop not running, and a stop()
\* of a stopped surface changes nothing.
C9_StopIdempotent ==
    [][ /\ ~stop_raised'
        /\ stop_event => stop_event'
        /\ icon_loop = "stopped" => icon_loop' = "stopped"
        /\ StopStopsIcon => (stop_event' /\ icon_loop' # "running")
        /\ (stop_event /\ icon_loop # "running" /\ (StopSetsEvent \/ StopStopsIcon))
             => UNCHANGED <<stop_event, icon_loop>>
        /\ QtStop(QtStop(qt)) = QtStop(qt)
        /\ (QtStopStep /\ qt = QtStop(qt)) => qt' = qt
      ]_vars

\* Two stop() calls race: the signal handler's and the Exit action's are
\* both between setting the event and stopping the icon.
C9_Witness == sigpc = "icon" /\ tray_thread = "exit_icon"

----------------------------------------------------------------------------
(* Properties of the Profile Surface *)

\* C10: a stop() during the render loop does not move the loop (the frame
\* in progress is completed); the next loop test leaves the loop, after
\* which run() destroys the context and returns; and a window stopped in
\* its loop is followed by a state in which no run() is in progress (at
\* most one window is live at a time, so it is the run() of that window
\* that has ended).
C10_StopExitsLoop ==
    /\ [][\A w \in Windows :
            /\ (InRun(w) /\ running[w] /\ ~running'[w]) => wpc'[w] = wpc[w]
            /\ (wpc[w] = "test" /\ ~running[w] /\ wpc'[w] # "test")
                 => wpc'[w] = "destroy"
            /\ (wpc[w] = "destroy" /\ wpc'[w] # "destroy")
                 => (wpc'[w] = "returned" /\ dpg_context' = 0)
         ]_vars
    /\ (\E w \in Windows : wpc[w] \in {"test", "update", "render"} /\ ~running[w])
           ~> (\A w \in Windows : ~Live(w))

\* The loop has been left because of the flag alone, set by the tray thread
\* whose stop() has not yet reached dpg.stop_dearpygui().
C10_Witness ==
    \E w \in Windows :
        wpc[w] = "destroy" /\ ~running[w] /\ dpg_started /\ tray_thread = "exit_dpg"

----------------------------------------------------------------------------
(* ProfileWindow: the refresh state of one window inside its render loop   *)
(* (profile_window.py:253-255), taken alone: the coordinator stands still. *)

\* The values the interval slider is dragged to: within min_value and
\* max_value.
DraggedValues == {v \in MIN_INTERVAL..MAX_INTERVAL : v <= MaxSlider}

\* The values typed into the slider (Ctrl+Click turns it into an input
\* box): the slider is created without clamped=True, and dearpygui applies
\* min_value and max_value to typed values only when clamped is set.
EnteredValues == {MIN_INTERVAL - 1, MAX_INTERVAL + 1}

\* The values the slider hands to its callback.
SliderValues == DraggedValues \cup EnteredValues

\* Variant: no gate, every frame samples.
RefreshAlways(t, last, interval) == TRUE

\* if current_time - self._last_update < self._update_interval: return
RefreshDue(t, last, interval) == ~(t - last < interval)

\* Variant: the timestamp is stored before the sections are pushed, so it
\* advances in a call that raises too.
UpdateMetricsStampsFirst ==
    /\ rpc = "update"
    /\ rpc' = "render"
    /\ IF RefreshDue(now, last_update, update_interval)
       THEN /\ sampled' = TRUE
            /\ last_update' = now
            /\ \/ widgets' = [c \in Sections |-> now]
               \/ \E k \in Sections : \E part \in BOOLEAN :
                     widgets' = [c \in Sections |->
                                   IF c < k \/ (c = k /\ part)
                                   THEN now ELSE widgets[c]]
       ELSE /\ sampled' = FALSE
            /\ UNCHANGED <<last_update, widgets>>
    /\ UNCHANGED <<outsideRefresh, now, update_interval>>

\* self._update_metrics(): behind the gate the six sections are sampled and
\* pushed in order and the timestamp is stored; an exception of a toolkit
\* or formatting call in section k leaves the try block there (the sections
\* before k show the new sample, section k all, some or none of it) and is
\* swallowed.  The getters themselves never raise, so the collector is
\* called whenever the gate is passed.
UpdateMetrics ==
    /\ rpc = "update"
    /\ rpc' = "render"
    /\ IF RefreshDue(now, last_update, update_interval)
       THEN /\ sampled' = TRUE
            /\ \/ /\ widgets' = [c \in Sections |-> now]
                  /\ last_update' = now
               \/ /\ \E k \in Sections : \E part \in BOOLEAN :
                        widgets' = [c \in Sections |->
                                      IF c < k \/ (c = k /\ part)
                                      THEN now ELSE widgets[c]]
                  /\ UNCHANGED last_update
       ELSE /\ sampled' = FALSE
            /\ UNCHANGED <<last_update, widgets>>
    /\ UNCHANGED <<outsideRefresh, now, update_interval>>

\* dpg.render_dearpygui_frame(), then the next frame
RenderFrame ==
    /\ rpc = "render"
    /\ rpc' = "update"
    /\ UNCHANGED <<outsideRefresh, now, last_update, update_interval, sampled,
                   widgets>>

\* The slider's callback: self._update_interval = value
OnIntervalChange ==
    /\ \E value \in SliderValues : update_interval' = value
    /\ UNCHANGED <<outsideRefresh, rpc, now, last_update, sampled, widgets>>

\* The clock advances by a tenth of a second.
RefreshTick ==
    /\ now < StartTime + MaxTime
    /\ now' = now + 1
    /\ UNCHANGED <<outsideRefresh, rpc, last_update, update_interval, sampled,
                   widgets>>

RefreshInit == Init /\ ~use_qt

RefreshNext == UpdateMetrics \/ RenderFrame \/ OnIntervalChange \/ RefreshTick

RefreshSpec == RefreshInit /\ [][RefreshNext]_vars

\* The step of a frame that calls _update_metrics.
FrameStep == rpc = "update" /\ rpc' = "render"

\* C11, as stated: a frame samples the collector or changes a widget only
\* if the time since the last update exceeds the refresh interval.
C11_RefreshOnlyWhenExceeded ==
    [][FrameStep /\ (sampled' \/ widgets' # widgets)
          => now - last_update > update_interval]_vars

\* C11, amended: a frame samples the collector exactly when the time since
\* the last update is at least the refresh interval (the interval itself
\* included); in every other frame the collector is not called and no
\* widget value changes.
C11_RefreshGate ==
    [][FrameStep =>
          /\ sampled' <=> (now - last_update >= update_interval)
          /\ now - last_update < update_interval
                => ~sampled' /\ widgets' = widgets /\ last_update' = last_update
          /\ widgets' # widgets => sampled']_vars

\* A frame has been skipped by the gate after an earlier update.
C11_Witness ==
    /\ rpc = "render" /\ ~sampled
    /\ last_update > 0 /\ widgets[1] = last_update
    /\ now - last_update < update_interval

----------------------------------------------------------------------------
(* MetricsCollector (metrics.py): the getters over an operating system     *)
(* whose queries may raise or return None.  A query that succeeds returns  *)
(* os_reading.                                                             *)

\* Bound of the model: at most this many queries are faulty at once.
MaxFaults == 2
\* Bound of the model: a query returns a number up to this one.
MaxReading == 2

\* The psutil and platform calls of each getter.
CpuQueries == {"cpu_freq", "cpu_percent", "cpu_percent_percpu",
               "cpu_count_physical", "cpu_count_logical"}
MemoryQueries == {"virtual_memory", "swap_memory"}
DiskQueries == {"disk_usage", "disk_io_counters"}
NetworkQueries == {"net_io_counters"}
ProcessQueries == {"pids", "process_cpu_percent", "process_memory_percent",
                   "process_threads"}
SystemQueries == {"boot_time", "platform", "node"}
Queries == CpuQueries \cup MemoryQueries \cup DiskQueries \cup NetworkQueries
              \cup ProcessQueries \cup SystemQueries

\* The queries psutil documents as returning None when the platform has
\* nothing to report.
NoneQueries == {"cpu_freq", "cpu_count_physical", "cpu_count_logical",
                "disk_io_counters", "net_io_counters"}

\* self._system_drive on a system that is not Windows
system_drive == "/"

\* Variant: the getter has no try/except, the exception leaves it.
NoExcept(raises, value, default) ==
    [raised |-> raises, value |-> IF raises THEN default ELSE value]

\* try: return <value> / except Exception: return <default>
TryExcept(raises, value, default) ==
    [raised |-> FALSE, value |-> IF raises THEN default ELSE value]

\* psutil.cpu_count(...) or 1
OrOne(q, none, r) == IF q \in none \/ r = 0 THEN 1 ELSE r

get_cpu_metrics(fail, none, r) ==
    TryExcept(CpuQueries \cap fail # {},
              [total_percent |-> r,
               per_core_percent |-> <<r>>,
               frequency_mhz |-> IF "cpu_freq" \in none THEN 0 ELSE r,
               core_count |-> OrOne("cpu_count_physical", none, r),
               thread_count |-> OrOne("cpu_count_logical", none, r)],
              [total_percent |-> 0, per_core_percent |-> <<>>,
               frequency_mhz |-> 0, core_count |-> 1, thread_count |-> 1])

get_memory_metrics(fail, none, r) ==
    TryExcept(MemoryQueries \cap fail # {},
              [total_bytes |-> r, available_bytes |-> r, used_percent |-> r,
               swap_total_bytes |-> r, swap_used_percent |-> r],
              [total_bytes |-> 0, available_bytes |-> 0, used_percent |-> 0,
               swap_total_bytes |-> 0, swap_used_percent |-> 0])

get_disk_metrics(fail, none, r) ==
    TryExcept(DiskQueries \cap fail # {},
              [total_bytes |-> r, used_percent |-> r,
               read_bytes |-> IF "disk_io_counters" \in none THEN 0 ELSE r,
               write_bytes |-> IF "disk_io_counters" \in none THEN 0 ELSE r,
               mount_point |-> system_drive],
              [total_bytes |-> 0, used_percent |-> 0, read_bytes |-> 0,
               write_bytes |-> 0, mount_point |-> system_drive])

\* net.bytes_sent on a None raises AttributeError inside the try
get_network_metrics(fail, none, r) ==
    TryExcept(NetworkQueries \cap (fail \cup none) # {},
              [bytes_sent |-> r, bytes_recv |-> r, packets_sent |-> r,
               packets_recv |-> r],
              [bytes_sent |-> 0, bytes_recv |-> 0, packets_sent |-> 0,
               packets_recv |-> 0])

get_process_metrics(fail, none, r) ==
    TryExcept(ProcessQueries \cap fail # {},
              [total_processes |-> r, current_cpu_percent |-> r,
               current_memory_percent |-> r, current_threads |-> r],
              [total_processes |-> 0, current_cpu_percent |-> 0,
               current_memory_percent |-> 0, current_threads |-> 0])

\* the default's boot_time is datetime.now()
get_system_info(fail, none, r) ==
    TryExcept(SystemQueries \cap fail # {},
              [boot_time |-> <<"boot", r>>, uptime_seconds |-> r,
               platform |-> "platform-" \o ToString(r),
               hostname |-> "node-" \o ToString(r)],
              [boot_time |-> <<"now">>, uptime_seconds |-> 0,
               platform |-> "Unknown", hostname |-> "Unknown"])

\* One try block around the three queries.
get_quick_metrics(fail, none, r) ==
    TryExcept({"cpu_percent", "virtual_memory", "disk_usage"} \cap fail # {},
              [cpu |-> r, mem |-> r, disk |-> r],
              [cpu |-> 0, mem |-> 0, disk |-> 0])

Getters == {"cpu", "memory", "disk", "network", "process", "system"}

Getter(c, fail, none, r) ==
    CASE c = "cpu" -> get_cpu_metrics(fail, none, r)
      [] c = "memory" -> get_memory_metrics(fail, none, r)
      [] c = "disk" -> get_disk_metrics(fail, none, r)
      [] c = "network" -> get_network_metrics(fail, none, r)
      [] c = "process" -> get_process_metrics(fail, none, r)
      [] c = "system" -> get_system_info(fail, none, r)

QueriesOf(c) ==
    CASE c = "cpu" -> CpuQueries
      [] c = "memory" -> MemoryQueries
      [] c = "disk" -> DiskQueries
      [] c = "network" -> NetworkQueries
      [] c = "process" -> ProcessQueries
      [] c = "system" -> SystemQueries

\* The faults of the operating system: a query that raises or, where
\* psutil allows it, returns None.
Faults == {<<q, "raise">> : q \in Queries} \cup {<<q, "none">> : q \in NoneQueries}

RECURSIVE FaultSets(_)
FaultSets(n) ==
    IF n = 0 THEN {{}}
    ELSE LET S == FaultSets(n - 1)
         IN  S \cup {F \cup {f} : F \in S, f \in Faults}

\* A caller (ProfileWindow._update_metrics) calls one getter.
CallGetter(c) ==
    /\ LET res == Getter(c, os_raise, os_none, os_reading)
       IN  got' = [call |-> c, raised |-> res.raised, value |-> res.value]
    /\ UNCHANGED <<outsideMetrics, os_raise, os_none, os_reading, shown>>

\* One tick of the tray (PystrayTrayIcon._update_loop's try block,
\* QtTrayIcon._update_metrics): the quick sample, then the icon and the
\* tooltip made of its three values; an exception skips icon and tooltip.
TrayRefresh ==
    /\ LET res == get_quick_metrics(os_raise, os_none, os_reading)
       IN  /\ got' = [call |-> "quick", raised |-> res.raised,
                      value |-> res.value]
           /\ shown' = IF res.raised THEN shown ELSE res.value
    /\ UNCHANGED <<outsideMetrics, os_raise, os_none, os_reading>>

MetricsSpecInit ==
    /\ AppInit /\ ~use_qt
    /\ ProfileWindowInit
    /\ CliInit
    /\ FormatInit
    /\ UptimeInit
    /\ TooltipInit
    /\ \E F \in FaultSets(MaxFaults) :
          /\ os_raise = {f[1] : f \in {g \in F : g[2] = "raise"}}
          /\ os_none = {f[1] : f \in {g \in F : g[2] = "none"}}
    /\ os_reading \in 0..MaxReading
    /\ got = [call |-> "none", raised |-> FALSE, value |-> [none |-> TRUE]]
    /\ shown = [cpu |-> INITIAL_LEVEL, mem |-> INITIAL_LEVEL,
                disk |-> INITIAL_LEVEL]

MetricsNext == (\E c \in Getters : CallGetter(c)) \/ TrayRefresh

MetricsSpec == MetricsSpecInit /\ [][MetricsNext]_vars

\* The value a getter returns when a query of its category raises.
DefaultOf(c) == Getter(c, QueriesOf(c), {}, 0).value

\* C12: a getter never raises; if a query of its category raises it returns
\* the category's default; and it returns what it would return if the
\* queries of the other five categories had no fault.
C12_GettersIsolated ==
    \A c \in Getters :
        got.call = c =>
            /\ ~got.raised
            /\ QueriesOf(c) \cap os_raise # {} => got.value = DefaultOf(c)
            /\ got.value = Getter(c, os_raise \cap QueriesOf(c),
                                  os_none \cap QueriesOf(c), os_reading).value
            /\ (QueriesOf(c) \cap (os_raise \cup os_none) = {} /\ os_reading > 0)
                  => got.value # DefaultOf(c)

\* get_disk_metrics has returned its default while the CPU queries work.
C12_Witness ==
    /\ got.call = "disk" /\ os_raise = {"disk_usage"} /\ os_reading > 0
    /\ got.value.total_bytes = 0 /\ got.value.mount_point = system_drive

\* C13: when exactly one of the three queries of the quick sample raises,
\* the tray still shows the sampled values of the other two.
C13_QuickSampleIsolated ==
    \A q \in {"cpu_percent", "virtual_memory", "disk_usage"} :
        (got.call = "quick" /\ os_raise = {q}) =>
            /\ q # "cpu_percent" => shown.cpu = os_reading
            /\ q # "virtual_memory" => shown.mem = os_reading
            /\ q # "disk_usage" => shown.disk = os_reading

----------------------------------------------------------------------------
(* Threads and flags of the coordinator *)

\* A step that executes a part of ProfileWindow.run of window w.
RunStep(w) == wpc'[w] # wpc[w] /\ (InRun(w) \/ wpc'[w] = "run")

\* C14: in default mode every step of a ProfileWindow.run() is taken by the
\* primary thread inside the call at app.py:92, never by the tray worker or
\* the refresh thread; the tray's blocking run() is on the worker thread;
\* and while a window is open the refresh thread is never blocked: it can
\* take its next step, or is in a timed wait that the clock ends.
C14_ProfileOnPrimaryThread ==
    /\ [][\A w \in Windows :
             RunStep(w) =>
                /\ ~use_qt
                /\ mainpc = "in_run" \/ (mainpc = "call_run" /\ mainpc' = "in_run")
                /\ profile = w
                /\ tray_thread' = tray_thread
                /\ update_thread' = update_thread]_vars
    /\ [](icon_loop = "running"
            => ~use_qt /\ tray_thread \in {"loop", "exit_icon"})
    /\ []((\E w \in Windows : InRun(w))
            /\ update_thread \in {"init_wait", "test", "sample", "icon",
                                  "title", "wait"}
            => ENABLED (UpdateThread \/ Tick))

\* The refresh thread is in the middle of an update while a window renders.
C14_Witness ==
    /\ \E w \in Windows : wpc[w] = "render" /\ profile = w
    /\ mainpc = "in_run" /\ tray_thread = "loop" /\ icon_loop = "running"
    /\ update_thread = "icon" /\ last_op = "sample"

\* C15: in Qt mode no ProfileWindow is ever constructed or run and no worker
\* thread is started, however many show-profile requests are made; a
\* request only sets the flag and the event loop goes on; and L3PApp.run
\* returns exactly when QtTrayIcon.run returns (its event loop has ended, or
\* no system tray was available).
C15_QtModeTrayOnly ==
    /\ [](use_qt =>
            /\ \A w \in Windows : wpc[w] = "none"
            /\ profile = 0 /\ dpg_context = 0
            /\ tray_thread = "unstarted" /\ update_thread = "unstarted")
    /\ [][use_qt /\ clicks' # clicks =>
             /\ show_profile_event'
             /\ mainpc' = mainpc /\ qt' = qt /\ exit_event' = exit_event]_vars
    /\ [][use_qt /\ mainpc # "done" /\ mainpc' = "done" =>
             \/ mainpc = "qt_exec" /\ qt.app = "quit"
             \/ mainpc = "qt_avail"]_vars
    /\ [](use_qt /\ mainpc = "qt_exec" /\ qt.app = "quit" /\ MainFree
            => ENABLED QtExecReturns)

\* Every allowed request has been made in Qt mode and run() has returned.
C15_Witness ==
    /\ use_qt /\ clicks >= 2 /\ show_profile_event
    /\ mainpc = "done" /\ qt.app = "quit"

\* A show-profile request is pending in default mode and exit is not.
RequestPending == ~use_qt /\ show_profile_event /\ ~exit_event

\* The supervising loop has just cleared the flag (app.py:88).
FlagCleared == ~use_qt /\ mainpc = "create"

\* ProfileWindow.run() has just been entered on the primary thread.
RunStarted == mainpc = "in_run" /\ profile # 0 /\ wpc[profile] = "run"

\* Every run() the supervising loop starts comes after it has cleared the
\* flag in the same iteration: clear (app.py:88), construct (90), run (92).
ClearedBeforeRun ==
    /\ (mainpc # "in_run" /\ mainpc' = "in_run")
          => mainpc = "call_run" /\ RunStarted'
    /\ (mainpc # "call_run" /\ mainpc' = "call_run") => mainpc = "create"
    /\ (mainpc # "create" /\ mainpc' = "create")
          => mainpc = "clear" /\ show_profile_event /\ ~show_profile_event'

\* C16, as stated: in default mode a request made while the exit flag is
\* unset (and likewise the clearing of the flag) is eventually followed by
\* the start of a run() on the primary thread, and the flag is cleared
\* before each run starts.
C16_RequestStartsRun ==
    /\ (RequestPending \/ FlagCleared) ~> RunStarted
    /\ [][ClearedBeforeRun]_vars

\* C16, amended: in default mode a request made while the exit flag is
\* unset (and likewise the clearing of the flag) is eventually followed by
\* the start of a run() on the primary thread, unless the exit flag is set
\* in the meantime; and the flag is cleared before each run starts.
C16_RequestStartsRunUnlessExit ==
    /\ (RequestPending \/ FlagCleared) ~> (RunStarted \/ exit_event)
    /\ [][ClearedBeforeRun]_vars

\* A run() has started after a request, with the flag cleared and no exit.
C16_Witness ==
    /\ RunStarted /\ clicks > 0 /\ ~show_profile_event /\ ~exit_event

\* A step of the Tray Surface: of its worker thread, its refresh thread, its
\* stop(), one of its menu actions, or of the Qt tray.
TrayStep ==
    \/ tray_thread' # tray_thread
    \/ update_thread' # update_thread
    \/ icon_loop' # icon_loop
    \/ stop_event' # stop_event
    \/ clicks' # clicks
    \/ qt' # qt

\* C17: the show-profile flag is set only by a show-profile action of the
\* tray, which never clears it; it is cleared only by the supervising loop
\* at app.py:88; the exit flag is never cleared; and no step of the Tray
\* Surface clears either flag.
C17_FlagWriters ==
    [][/\ (~show_profile_event /\ show_profile_event')
             => clicks' = clicks + 1 /\ mainpc' = mainpc /\ sigpc' = sigpc
       /\ clicks' # clicks => show_profile_event'
       /\ (show_profile_event /\ ~show_profile_event')
             => ~use_qt /\ mainpc = "clear" /\ mainpc' = "create" /\ ~TrayStep
       /\ exit_event => exit_event'
       /\ TrayStep => /\ show_profile_event => show_profile_event'
                      /\ exit_event => exit_event']_vars

\* The tray's exit action has run while a show-profile request was pending,
\* and the request is still pending.
C17_Witness ==
    /\ tray_thread = "exit_profile" /\ exit_event /\ show_profile_event
    /\ clicks > 0 /\ mainpc \in {"loop_test", "wait"}

\* The refresh thread is inside an iteration of its loop (tray.py:185-197).
InUpdate == update_thread \in {"sample", "icon", "title"}

\* C18: the stop flag of a PystrayTrayIcon, once set, is never cleared
\* (is_running() never turns true again), and from then on the refresh loop
\* begins no iteration: whatever is called on the instance afterwards, a
\* run() included, it samples nothing and shows nothing new (an iteration
\* that had passed the loop test when stop() came is finished).
C18_StoppedIsTerminal ==
    [][/\ stop_event => stop_event'
       /\ (stop_event /\ ~InUpdate) => (~InUpdate' /\ last_op' = last_op)]_vars

\* stop() came before run(): the icon's loop runs, the refresh thread has
\* ended without a single update.
C18_Witness ==
    /\ stop_event /\ icon_loop = "running" /\ tray_thread = "loop"
    /\ update_thread = "done" /\ last_op = "none"

----------------------------------------------------------------------------
(* main() (__main__.py:9-59): one call, with the selected mode's run taken *)
(* as a call that returns or raises.                                       *)

\* The options argparse knows (--help is its own), and one it does not.
KnownOptions == {"--tray-only", "--profile-only", "--version", "--help"}
Options == KnownOptions \cup {"--bogus"}

\* The texts of the exceptions a mode raises.
Messages == {"", "no display", "tray failed", "icon failed"}

\* What `from .app import ...` loads: app.py imports tray and profile_window,
\* and these import metrics and version.
AppModules == {"app", "tray", "profile_window", "metrics", "version"}

Return(code) == [kind |-> "return", code |-> code]
\* An exception (or SystemExit) leaves main(); code is the exit status the
\* interpreter gives the process.
Raise(code) == [kind |-> "raise", code |-> code]

\* args = parser.parse_args(): --help prints the help and exits with 0, an
\* unknown option prints the usage to standard error and exits with 2.
CliParse ==
    /\ cli_pc = "parse"
    /\ IF "--help" \in argv
       THEN /\ cli_result' = Raise(0)
            /\ cli_pc' = "done"
            /\ UNCHANGED stderr
       ELSE IF argv \ KnownOptions # {}
       THEN /\ cli_result' = Raise(2)
            /\ stderr' = "usage"
            /\ cli_pc' = "done"
       ELSE /\ cli_pc' = "version"
            /\ UNCHANGED <<cli_result, stderr>>
    /\ UNCHANGED <<outsideCli, argv, imported, mode, outcome>>

\* if args.version: from .version import ...; print(...); return 0
CliVersion ==
    /\ cli_pc = "version"
    /\ IF "--version" \in argv
       THEN /\ imported' = imported \cup {"version"}
            /\ cli_result' = Return(0)
            /\ cli_pc' = "done"
       ELSE /\ cli_pc' = "import"
            /\ UNCHANGED <<imported, cli_result>>
    /\ UNCHANGED <<outsideCli, argv, mode, outcome, stderr>>

\* from .app import L3PApp, run_tray_only, run_profile_only: outside the try
\* block, so an exception of the import (a missing dependency) leaves main()
\* and the interpreter prints the traceback and exits with status 1.
CliImport ==
    /\ cli_pc = "import"
    /\ \/ /\ imported' = imported \cup AppModules
          /\ cli_pc' = "select"
          /\ UNCHANGED <<cli_result, stderr>>
       \/ /\ cli_result' = Raise(1)
          /\ stderr' = "Traceback"
          /\ cli_pc' = "done"
          /\ UNCHANGED imported
    /\ UNCHANGED <<outsideCli, argv, mode, outcome>>

\* if args.tray_only: ... elif args.profile_only: ... else: ...
SelectedMode(options) ==
    IF "--tray-only" \in options THEN "tray"
    ELSE IF "--profile-only" \in options THEN "profile"
    ELSE "full"

\* run_tray_only() / run_profile_only() / L3PApp().run() is called
CliStartMode ==
    /\ cli_pc = "select"
    /\ mode' = SelectedMode(argv)
    /\ cli_pc' = "running"
    /\ UNCHANGED <<outsideCli, argv, imported, outcome, cli_result, stderr>>

\* Variant: an interrupt is reported as an error.
ExitCodeInterruptIsError(how) == IF how = "returns" THEN 0 ELSE 1

\* except KeyboardInterrupt: pass / except Exception: return 1 / return 0
ExitCode(how) == IF how = "Exception" THEN 1 ELSE 0

\* The call of the mode returns, or raises KeyboardInterrupt, or raises
\* another Exception e: print(f"Error: {e}", file=sys.stderr)
CliModeEnds ==
    /\ cli_pc = "running"
    /\ \E how \in {"returns", "KeyboardInterrupt", "Exception"} :
       \E e \in Messages :
          /\ outcome' = how
          /\ cli_result' = Return(ExitCode(how))
          /\ stderr' = IF how = "Exception" THEN "Error: " \o e ELSE stderr
    /\ cli_pc' = "done"
    /\ UNCHANGED <<outsideCli, argv, imported, mode>>

MainSpecInit ==
    /\ AppInit /\ ~use_qt
    /\ ProfileWindowInit
    /\ MetricsInit
    /\ FormatInit
    /\ UptimeInit
    /\ TooltipInit
    /\ argv \in SUBSET Options
    /\ cli_pc = "parse"
    /\ imported = {}
    /\ mode = "none"
    /\ outcome = "none"
    /\ cli_result = NoResult
    /\ stderr = ""

MainSpecNext ==
    CliParse \/ CliVersion \/ CliImport \/ CliStartMode \/ CliModeEnds

MainSpec == MainSpecInit /\ [][MainSpecNext]_vars

\* C19: main() returns 0 when the selected mode returns or is interrupted by
\* KeyboardInterrupt; it returns 1, with "Error: <message>" on standard
\* error, when the mode raises another exception, and only then (an
\* exception of the import before the mode ends the process with status 1
\* and a traceback on standard error); and with --version it returns 0
\* having imported none of app, tray, profile_window and started no mode.
C19_ExitCodes ==
    cli_pc = "done" =>
        /\ outcome \in {"returns", "KeyboardInterrupt"}
              => cli_result = Return(0) /\ stderr = ""
        /\ outcome = "Exception"
              => cli_result = Return(1) /\ stderr \in {"Error: " \o e : e \in Messages}
        /\ cli_result = Return(1) => outcome = "Exception"
        /\ (cli_result.kind = "raise" /\ argv \subseteq KnownOptions
               /\ "--help" \notin argv)
              => cli_result.code = 1 /\ stderr # "" /\ mode = "none"
        /\ (argv \subseteq KnownOptions /\ {"--version"} \subseteq argv
               /\ "--help" \notin argv)
              => /\ cli_result = Return(0)
                 /\ imported \cap {"app", "tray", "profile_window"} = {}
                 /\ mode = "none"

\* A mode has been interrupted by KeyboardInterrupt and main() has ended.
C19_Witness ==
    /\ cli_pc = "done" /\ outcome = "KeyboardInterrupt"
    /\ mode = "profile" /\ cli_result = Return(0)

----------------------------------------------------------------------------
(* format_bytes (metrics.py:198-204).  After k divisions the value is the  *)
(* byte count over 1024^k: the digits above position k are its integer     *)
(* part, the k digits below are its fraction.                              *)

\* The digits the arguments are made of.
DigitSet == {0, 1, 256, 1023}

ByteCounts == [BytePositions -> DigitSet]

\* Variant: the test is `bytes_value <= 1024`.
AtMost1024(n, k) ==
    \/ \A i \in BytePositions : i > k + 1 => n[i] = 0
    \/ /\ k + 2 \in BytePositions /\ n[k + 2] = 1
       /\ \A i \in BytePositions : i # k + 2 => n[i] = 0

\* if bytes_value < 1024, after k divisions
Below1024(n, k) == \A i \in BytePositions : i > k + 1 => n[i] = 0

\* The integer part of the value after k divisions (k >= Len(Units) - 2).
RECURSIVE IntegerPart(_, _, _)
IntegerPart(n, k, i) ==
    IF i > Len(n) THEN 0
    ELSE IF i <= k THEN IntegerPart(n, k, i + 1)
    ELSE n[i] + 1024 * IntegerPart(n, k, i + 1)

\* Ten times the fraction, digit by digit: the carry into position i.
RECURSIVE CarryInto(_, _)
CarryInto(n, i) ==
    IF i = 1 THEN 0 ELSE (n[i - 1] * 10 + CarryInto(n, i - 1)) \div 1024

\* The first decimal of the fraction, and what is left below it.
Tenths(n, k) == CarryInto(n, k + 1)
Remainder(n, k) == [i \in 1..k |-> (n[i] * 10 + CarryInto(n, i)) % 1024]

\* The remainder against half a tenth: -1 below, 0 equal, 1 above.
HalfCompare(r) ==
    IF Len(r) = 0 THEN -1
    ELSE IF r[Len(r)] > 512 THEN 1
    ELSE IF r[Len(r)] < 512 THEN -1
    ELSE IF \E i \in 1..(Len(r) - 1) : r[i] # 0 THEN 1 ELSE 0

\* f"{value:.1f}": the value in tenths, rounded to the nearest, a tie to
\* the even tenth, written with one decimal.
OneDecimal(n, k) ==
    LET floor == IntegerPart(n, k, 1) * 10 + Tenths(n, k)
        cmp == HalfCompare(Remainder(n, k))
        up == cmp = 1 \/ (cmp = 0 /\ floor % 2 = 1)
        tenths == IF up THEN floor + 1 ELSE floor
    IN  ToString(tenths \div 10) \o "." \o ToString(tenths % 10)

\* The number of divisions the loop makes before it returns.
RECURSIVE Divisions(_, _)
Divisions(n, k) ==
    IF k = Len(Units) - 1 THEN k
    ELSE IF Below1024(n, k) THEN k
    ELSE Divisions(n, k + 1)

format_bytes(n) ==
    LET k == Divisions(n, 0)
    IN  OneDecimal(n, k) \o " " \o Units[k + 1]

\* A caller formats a byte count.
CallFormatBytes ==
    /\ formatted = ""
    /\ formatted' = format_bytes(bytes_value)
    /\ divisions' = Divisions(bytes_value, 0)
    /\ UNCHANGED <<outsideFmt, bytes_value>>

FormatSpecInit ==
    /\ AppInit /\ ~use_qt
    /\ ProfileWindowInit
    /\ MetricsInit
    /\ CliInit
    /\ bytes_value \in ByteCounts
    /\ divisions = 0
    /\ formatted = ""
    /\ UptimeInit
    /\ TooltipInit

FormatNext == CallFormatBytes

FormatSpec == FormatSpecInit /\ [][FormatNext]_vars

\* n < 1024^j: every digit from position j + 1 on is zero.
BelowPower(n, j) == \A i \in BytePositions : i > j => n[i] = 0

\* m <= n, comparing the digits from the highest down.
RECURSIVE LessEq(_, _, _)
LessEq(m, n, i) ==
    IF i = 0 THEN TRUE
    ELSE IF m[i] # n[i] THEN m[i] < n[i]
    ELSE LessEq(m, n, i - 1)

\* C20: format_bytes(n) names the unit B if n < 1024, KB if n < 1024^2, MB
\* if n < 1024^3, GB if n < 1024^4 and TB otherwise; a count that is not
\* larger never gets a larger unit; and format_bytes(0) = "0.0 B",
\* format_bytes(1024) = "1.0 KB", format_bytes(1024 * 1024) = "1.0 MB".
C20_FormatBytesUnit ==
    formatted # "" =>
        LET n == bytes_value
        IN  /\ divisions = (CHOOSE j \in 0..4 :
                              /\ j < 4 => BelowPower(n, j + 1)
                              /\ j > 0 => ~BelowPower(n, j))
            /\ formatted = OneDecimal(n, divisions) \o " "
                              \o <<"B", "KB", "MB", "GB", "TB">>[divisions + 1]
            /\ \A m \in ByteCounts :
                  LessEq(m, n, Len(Units)) => Divisions(m, 0) <= divisions
            /\ n = ZeroBytes => formatted = "0.0 B"
            /\ n = [ZeroBytes EXCEPT ![2] = 1] => formatted = "1.0 KB"
            /\ n = [ZeroBytes EXCEPT ![3] = 1] => formatted = "1.0 MB"

\* format_bytes(1024 * 1024) has been called.
C20_Witness ==
    bytes_value = [ZeroBytes EXCEPT ![3] = 1] /\ formatted = "1.0 MB"

----------------------------------------------------------------------------
(* format_uptime (metrics.py:207-223).  The argument is a float of         *)
(* seconds, held here in tenths of a second.                               *)

\* Bound of the model: the uptimes tried have at most this many days.
MaxDays == 2

TENTHS == 10
DAY == 86400
HOUR == 3600
MINUTE == 60

\* The uptimes tried: around every carry of every component, whole or not.
Uptimes ==
    { ((d * DAY + h * HOUR + m * MINUTE + sec) * TENTHS) + t :
        d \in 0..MaxDays, h \in {0, 1, 23}, m \in {0, 1, 59},
        sec \in {0, 1, 59}, t \in {0, 9} }

\* int(seconds)
int(x) == x \div TENTHS

divmod(a, b) == <<a \div b, a % b>>

\* f"{value}{unit}"
Part(value, unit) == ToString(value) \o unit

\* ' '.join(parts)
RECURSIVE join(_)
join(parts) ==
    IF Len(parts) = 0 THEN ""
    ELSE IF Len(parts) = 1 THEN parts[1]
    ELSE parts[1] \o " " \o join(Tail(parts))

\* Variant: the seconds are appended whatever the other parts are.
SecsAlways(secs, parts) == TRUE

\* if secs > 0 or not parts
SecsAppended(secs, parts) == secs > 0 \/ parts = <<>>

format_uptime(x) ==
    LET dr == divmod(int(x), DAY)
        hr == divmod(dr[2], HOUR)
        ms == divmod(hr[2], MINUTE)
        days == dr[1]
        hours == hr[1]
        minutes == ms[1]
        secs == ms[2]
        p1 == IF days > 0 THEN <<Part(days, "d")>> ELSE <<>>
        p2 == IF hours > 0 THEN Append(p1, Part(hours, "h")) ELSE p1
        p3 == IF minutes > 0 THEN Append(p2, Part(minutes, "m")) ELSE p2
        p4 == IF SecsAppended(secs, p3) THEN Append(p3, Part(secs, "s"))
              ELSE p3
    IN  join(p4)

\* A caller formats an uptime.
CallFormatUptime ==
    /\ uptime_text = ""
    /\ uptime_text' = format_uptime(seconds)
    /\ UNCHANGED <<outsideUptime, seconds>>

UptimeSpecInit ==
    /\ AppInit /\ ~use_qt
    /\ ProfileWindowInit
    /\ MetricsInit
    /\ CliInit
    /\ FormatInit
    /\ seconds \in Uptimes
    /\ uptime_text = ""
    /\ TooltipInit

UptimeNext == CallFormatUptime

UptimeSpec == UptimeSpecInit /\ [][UptimeNext]_vars

\* The text that lists the non-zero ones of d, h, m, sec in this order.
RECURSIVE Listed(_, _)
Listed(values, units) ==
    IF Len(values) = 0 THEN ""
    ELSE LET rest == Listed(Tail(values), Tail(units))
         IN  IF values[1] = 0 THEN rest
             ELSE ToString(values[1]) \o units[1]
                    \o (IF rest = "" THEN "" ELSE " " \o rest)

\* C21: for a whole number of seconds s = 86400*d + 3600*h + 60*m + sec with
\* h < 24, m < 60 and sec < 60, format_uptime(s) lists exactly the non-zero
\* ones of d, h, m, sec in this order, and is "0s" when all are zero;
\* format_uptime(0) = "0s" and format_uptime(90061) = "1d 1h 1m 1s".
C21_UptimeComponents ==
    (uptime_text # "" /\ seconds % 10 = 0) =>
        LET s == seconds \div 10
        IN  /\ \A d \in 0..(MaxDays + 1), h \in 0..23 :
                  LET low == s - 86400 * d - 3600 * h
                      m == low \div 60
                      sec == low % 60
                  IN  (low >= 0 /\ m < 60) =>
                          uptime_text =
                              IF d = 0 /\ h = 0 /\ m = 0 /\ sec = 0 THEN "0s"
                              ELSE Listed(<<d, h, m, sec>>,
                                          <<"d", "h", "m", "s">>)
            /\ s = 0 => uptime_text = "0s"
            /\ s = 90061 => uptime_text = "1d 1h 1m 1s"

\* format_uptime(90061) has been called.
C21_Witness == seconds = 900610 /\ uptime_text = "1d 1h 1m 1s"

----------------------------------------------------------------------------
(* The tooltip of the tray (tray.py:186-195, tray_qt.py:91-104), built     *)
(* from a quick sample whose values psutil gives in tenths of a percent.   *)

\* Bound of the model: the sample values tried go up to this many tenths.
MaxPercent == 1000

\* The samples tried: each of cpu, mem and disk takes every value once.
Samples ==
    { <<v, (v * 3) % (MaxPercent + 1), MaxPercent - v>> : v \in 0..MaxPercent }

\* version.get_version()
get_version(is_frozen) == IF is_frozen THEN "2.0.0" ELSE "dev-2.0.0"

\* sys.platform on a host
sys_platform(system) ==
    CASE system = "Windows" -> "win32"
      [] system = "Darwin" -> "darwin"
      [] OTHER -> "linux"

\* Variant: f"{value:.0f}" of a value that has no tenths.
NoDecimal(v) == ToString(v \div 10)

\* f"{value:.1f}" of a value given in tenths
OneDecimalOf(v) == ToString(v \div 10) \o "." \o ToString(v % 10)

\* The f-string both trays build.
TooltipText(version, disk_label, s) ==
    "L3P v" \o version \o "\n"
    \o "CPU: " \o OneDecimalOf(s[1]) \o "%\n"
    \o "Memory: " \o OneDecimalOf(s[2]) \o "%\n"
    \o "Disk (" \o disk_label \o "): " \o OneDecimalOf(s[3]) \o "%"

\* PystrayTrayIcon._update_loop: self._icon.title = ...
PystrayTooltip ==
    /\ tooltip_by = "none"
    /\ LET disk_label == IF host = "Windows" THEN "C:" ELSE "/"
       IN  tooltip' = TooltipText(get_version(frozen), disk_label, sample)
    /\ tooltip_by' = "pystray"
    /\ UNCHANGED <<outsideTooltip, host, frozen, sample>>

\* QtTrayIcon._update_metrics: self._tray.setToolTip(...)
QtTooltip ==
    /\ tooltip_by = "none"
    /\ LET disk_label == IF sys_platform(host) # "win32" THEN "/" ELSE "C:"
       IN  tooltip' = TooltipText(get_version(frozen), disk_label, sample)
    /\ tooltip_by' = "qt"
    /\ UNCHANGED <<outsideTooltip, host, frozen, sample>>

TooltipSpecInit ==
    /\ AppInit /\ ~use_qt
    /\ ProfileWindowInit
    /\ MetricsInit
    /\ CliInit
    /\ FormatInit
    /\ UptimeInit
    /\ host \in {"Linux", "Windows"}
    /\ frozen \in BOOLEAN
    /\ sample \in Samples
    /\ tooltip = "L3P - Loading..."
    /\ tooltip_by = "none"

TooltipNext == PystrayTooltip \/ QtTooltip

TooltipSpec == TooltipSpecInit /\ [][TooltipNext]_vars

\* text contains part
Contains(text, part) ==
    \E i \in 1..(Len(text) - Len(part) + 1) :
        SubSeq(text, i, i + Len(part) - 1) = part

\* C22: for quick-sample values in [0, 100] in steps of 0.1, the tooltip a
\* tray builds from (cpu, mem, disk) contains, for each of the three
\* metrics, the value with exactly one decimal place followed by '%'.
C22_TooltipShowsSample ==
    tooltip_by # "none" =>
        /\ \A i \in 1..3 :
              Contains(tooltip, ToString(sample[i] \div 10) \o "."
                                  \o ToString(sample[i] % 10) \o "%")
        /\ Contains(tooltip, "CPU: " \o ToString(sample[1] \div 10) \o "."
                                  \o ToString(sample[1] % 10) \o "%\n")
        /\ Contains(tooltip, "Memory: " \o ToString(sample[2] \div 10) \o "."
                                  \o ToString(sample[2] % 10) \o "%\n")
        /\ Contains(tooltip, "): " \o ToString(sample[3] \div 10) \o "."
                                  \o ToString(sample[3] % 10) \o "%")
        /\ sample[1] = 0 => Contains(tooltip, "CPU: 0.0%")

\* A tray has built the tooltip of a sample whose cpu value is 0.0.
C22_Witness ==
    tooltip_by # "none" /\ sample[1] = 0 /\ Contains(tooltip, "CPU: 0.0%")

----------------------------------------------------------------------------
(* The refresh interval of the profile window (profile_window.py:29,       *)
(* 72-74, 87-95), under RefreshSpec.                                       *)

\* C23: the configured refresh interval is within [0.1, 5.0] seconds in
\* every reachable state: it starts at 1.0 and every change made through
\* _on_interval_change leaves it inside that range.
C23_IntervalInRange == update_interval \in MIN_INTERVAL..MAX_INTERVAL

----------------------------------------------------------------------------
(* A failing tick of the tray refresh loop (tray.py:184-199), under Spec.  *)

\* A step of the try block that ends in the except clause, which prints to
\* standard error.
TickFails ==
    /\ update_thread \in {"sample", "icon", "title"}
    /\ update_thread' # update_thread
    /\ last_op' = "error"

\* The refresh thread waits after a tick that failed.
FailedTickWaits == update_thread = "wait" /\ last_op = "error"

\* C24: a tick of the tray refresh loop that fails is reported and does not
\* end the loop: the loop does not retry within the tick but waits the
\* refresh interval, and its next step after the wait is the loop test,
\* which starts the next update unless the stop flag is set.
C24_FailedTickIsRepeated ==
    [][/\ TickFails
          => update_thread' = "wait" /\ wait_left' = UPDATE_INTERVAL
       /\ (FailedTickWaits /\ update_thread' # "wait")
          => /\ update_thread' = "test"
             /\ wait_left = 0 \/ stop_event
       /\ (update_thread = "test" /\ update_thread' # "test")
          => update_thread' = IF stop_event THEN "done" ELSE "sample"
      ]_vars

\* The update is attempted again after a tick that failed.
C24_Witness == update_thread = "sample" /\ last_op = "error" /\ ~stop_event

----------------------------------------------------------------------------
(* ProfileWindow.run() raising inside the supervising loop                 *)
(* (app.py:86-96), under Spec.                                             *)

\* except Exception as e: print(f"Profile window error: {e}", ...) has run:
\* the call has raised and the primary thread is before the finally clause.
ProfileErrorPrinted ==
    mainpc = "finally" /\ profile # 0 /\ wpc[profile] = "raised"

\* What belongs to the tray and to the supervising loop's exit.
trayState == <<tray, tray_thread, trayVars, updVars, exit_event>>

\* C25: when ProfileWindow.run() raises inside the supervising loop, the
\* error is printed, _profile is reset to None, the tray is left as it is
\* and the loop goes back to its test, so that a later request opens a new
\* window; _profile is non-None only from the creation of an instance until
\* the finally clause that follows the end of its run().
C25_RunFailureContained ==
    /\ [](profile # 0 =>
            /\ mainpc \in {"call_run", "in_run", "finally"}
            /\ wpc[profile] = "created" \/ InRun(profile)
                  \/ wpc[profile] \in {"returned", "raised"}
            /\ mainpc = "finally" => wpc[profile] \in {"returned", "raised"})
    /\ [][/\ (mainpc = "in_run" /\ wpc[profile] = "raised"
                 /\ mainpc' # mainpc)
             => ProfileErrorPrinted' /\ trayState' = trayState
          /\ (mainpc = "finally" /\ mainpc' # mainpc)
             => /\ profile' = 0
                /\ mainpc' = "loop_test"
                /\ trayState' = trayState
          /\ (profile = 0 /\ profile' # 0)
             => wpc[profile'] = "none" /\ wpc'[profile'] = "created"
         ]_vars

\* After the first window's run() raised (its context is still there), the
\* second window's run() has been called while the tray goes on.
C25_Witness ==
    /\ wpc[1] = "released" /\ dpg_context = 1
    /\ profile = 2 /\ wpc[2] = "run"
    /\ tray_thread = "loop" /\ ~exit_event

----------------------------------------------------------------------------
(* A stop() that comes before run() has set the flag                       *)
(* (profile_window.py:222-265, app.py:38-42, 52-58), under FairSpec.       *)

\* stop() has just stored self._running = False on the coordinator's
\* instance, called by the signal handler or by the tray's Exit callback,
\* and run() has not yet stored self._running = True on it.
StopBeforeRunning ==
    /\ profile # 0
    /\ wpc[profile] \in {"created", "run"}
    /\ ~running[profile]
    /\ sigpc \in {"tray", "icon"} \/ tray_thread = "exit_dpg"

\* C26: a stop() issued on a ProfileWindow after its construction and before
\* its run() has set the running flag is not lost: run() on that instance
\* returns without the user closing the window.
C26_EarlyStopNotLost ==
    StopBeforeRunning ~> (\A w \in Windows : ~Live(w))

----------------------------------------------------------------------------
(* Show-profile requests and the runs they start (app.py:34-36, 86-96),   *)
(* under Spec.                                                             *)

\* A 'Show Profile' click: _on_show_profile sets the event.
ClickStep == clicks' = clicks + 1

\* The supervising loop clears the event.
ClearStep == mainpc = "clear" /\ mainpc' = "create"

\* The windows constructed so far.
Constructed == {w \in Windows : wpc[w] # "none"}

\* A step of the supervising loop.
LoopStep == mainpc' # mainpc

\* A request is pending after a click that came during a run().
ClickedWhileOpen == show_profile_event /\ req_in_run # {}

\* What C27 says of clicks and clears: a click on an event that is set
\* changes nothing but the count of clicks; the event stays set until the
\* supervising loop clears it; and a window is constructed, and its run()
\* called, by the supervising loop once after each clear and at no other
\* time.
ClicksCoalesce ==
    /\ (ClickStep /\ show_profile_event)
          => UNCHANGED <<mainpc, coordVars, winVars, trayVars>>
    /\ (show_profile_event /\ ~show_profile_event') => ClearStep
    /\ ClearStep => (show_profile_event /\ ~show_profile_event')
    /\ (mainpc' = "create" /\ LoopStep) => ClearStep
    /\ (mainpc = "create" /\ LoopStep)
          => /\ mainpc' = "call_run"
             /\ Cardinality(Constructed') = Cardinality(Constructed) + 1
    /\ (mainpc = "call_run" /\ LoopStep)
          => mainpc' = "in_run" /\ wpc'[profile] = "run"
    /\ Constructed' # Constructed => mainpc = "create"
    /\ \A w \in Windows :
          (wpc[w] # "run" /\ wpc'[w] = "run") => mainpc = "call_run"

\* The supervising loop, back at its test after a run() during which a
\* click came, goes on to the wait that finds the event set.
PendingIsServed ==
    /\ (mainpc = "finally" /\ LoopStep) => mainpc' = "loop_test"
    /\ (mainpc = "loop_test" /\ ClickedWhileOpen /\ LoopStep)
          => mainpc' = "wait"
    /\ (mainpc = "wait" /\ show_profile_event /\ LoopStep)
          => mainpc' = "clear"

\* The same, but the loop is left when the exit flag is set.
PendingIsServedUnlessExit ==
    /\ (mainpc = "finally" /\ LoopStep) => mainpc' = "loop_test"
    /\ (mainpc = "loop_test" /\ ClickedWhileOpen /\ LoopStep)
          => mainpc' = IF exit_event THEN "cleanup" ELSE "wait"
    /\ (mainpc = "wait" /\ show_profile_event /\ LoopStep)
          => mainpc' = "clear"

\* C27, as stated: requests coalesce, and a click made while a window is
\* open results in exactly one further run, which starts after the open
\* window's run() has returned.
C27_RequestsCoalesce == [][ClicksCoalesce /\ PendingIsServed]_vars

\* C27, amended: requests coalesce, and a click made while a window is open
\* results in exactly one further run, which starts after the open window's
\* run() has returned, unless the exit flag is set when the supervising loop
\* comes back to its test.
C27_RequestsCoalesceUnlessExit ==
    [][ClicksCoalesce /\ PendingIsServedUnlessExit]_vars

\* The supervising loop is about to clear the request of a click that came
\* while the first window was open, and to start the one further run.
C27_Witness ==
    /\ ClickedWhileOpen /\ mainpc = "clear"
    /\ Constructed = {1} /\ RunFinished(1)

----------------------------------------------------------------------------
(* A call of ProfileWindow._update_metrics in which a step raises          *)
(* (profile_window.py:162-220), under RefreshSpec.                         *)

\* A call that sampled and did not reach self._last_update = current_time.
CallRaised == FrameStep /\ sampled' /\ last_update' # now

----------------------------------------------------------------------------
(* The rendering context over the exit paths of ProfileWindow.run()        *)
(* (profile_window.py:222-257, app.py:90-96), under Spec.                  *)

\* C29: every ProfileWindow.run() that has created the rendering context
\* has destroyed it when the call ends, on every exit path (window closed,
\* stop() called, exception in the setup or in the render loop), so that no
\* context of an earlier instance is alive when the coordinator starts the
\* run() of the next instance.
C29_ContextDestroyed ==
    /\ \A w \in Windows : RunFinished(w) => dpg_context # w
    /\ \A w \in Windows : wpc[w] \in {"created", "run"} => dpg_context = 0
====
